---- MODULE Spec2Model ----
(***************************************************************************)
(* Source resolution and content-addressable store of apkg.                *)
(*                                                                         *)
(* Strings are sequences of one-character strings, so that the string      *)
(* functions the code calls (prefix tests, splitting, lower-casing,        *)
(* sorting) are computed as Go computes them.                              *)
(***************************************************************************)
EXTENDS Integers, Sequences, FiniteSets, TLC

(***************************************************************************)
(* Strings (Go's strings, sort and path/filepath packages).                *)
(***************************************************************************)

\* The printable ASCII characters in byte order, from 0x20 to 0x7e (the quote,
\* the backslash and the backtick, which no string of the model holds, by
\* name).
AsciiTable ==
  <<
     " ", "!", "QUOTE", "#", "$", "%", "&", "'", "(", ")", "*", "+", ",", "-", ".", "/",
     "0", "1", "2", "3", "4", "5", "6", "7", "8", "9", ":", ";", "<", "=", ">", "?",
     "@", "A", "B", "C", "D", "E", "F", "G", "H", "I", "J", "K", "L", "M", "N", "O",
     "P", "Q", "R", "S", "T", "U", "V", "W", "X", "Y", "Z", "[", "BACKSLASH", "]", "^", "_",
     "BACKTICK", "a", "b", "c", "d", "e", "f", "g", "h", "i", "j", "k", "l", "m", "n", "o",
     "p", "q", "r", "s", "t", "u", "v", "w", "x", "y", "z", "{", "|", "}", "~" >>

\* The byte value of every character of the table.
CodeMap ==
  [c \in { AsciiTable[i] : i \in 1..Len(AsciiTable) } |->
     31 + (CHOOSE i \in 1..Len(AsciiTable) : AsciiTable[i] = c)]

\* The byte value of a character.
Code(c) == CodeMap[c]

\* strings.ToLower on one character: 'A'..'Z' map to 'a'..'z'.
LowerChar(c) ==
  IF Code(c) >= 65 /\ Code(c) <= 90 THEN AsciiTable[Code(c) + 32 - 31] ELSE c

\* strings.ToLower
ToLower(s) == [i \in 1..Len(s) |-> LowerChar(s[i])]

\* strings.HasPrefix
HasPrefix(s, p) == Len(p) <= Len(s) /\ SubSeq(s, 1, Len(p)) = p

\* strings.HasSuffix
HasSuffix(s, p) == Len(p) <= Len(s) /\ SubSeq(s, Len(s) - Len(p) + 1, Len(s)) = p

\* strings.TrimPrefix
TrimPrefix(s, p) == IF HasPrefix(s, p) THEN SubSeq(s, Len(p) + 1, Len(s)) ELSE s

\* strings.TrimSuffix
TrimSuffix(s, p) == IF HasSuffix(s, p) THEN SubSeq(s, 1, Len(s) - Len(p)) ELSE s

\* The first 0-based position from i on at which sub occurs in s, or -1.
RECURSIVE IndexFrom(_, _, _)
IndexFrom(s, sub, i) ==
  IF i + Len(sub) > Len(s) THEN -1
  ELSE IF SubSeq(s, i + 1, i + Len(sub)) = sub THEN i
  ELSE IndexFrom(s, sub, i + 1)

\* The last 0-based position up to i at which sub occurs in s, or -1.
RECURSIVE IndexBack(_, _, _)
IndexBack(s, sub, i) ==
  IF i < 0 THEN -1
  ELSE IF SubSeq(s, i + 1, i + Len(sub)) = sub THEN i
  ELSE IndexBack(s, sub, i - 1)

\* strings.Index: the first occurrence, or -1.
Index(s, sub) == IndexFrom(s, sub, 0)

\* strings.LastIndex: the last occurrence, or -1.
LastIndex(s, sub) == IndexBack(s, sub, Len(s) - Len(sub))

\* strings.Contains
Contains(s, sub) == Index(s, sub) # -1

\* strings.Split with a non-empty separator: n separators give n+1 parts.
RECURSIVE Split(_, _)
Split(s, sep) ==
  IF Len(sep) = 1
  THEN LET at    == { i \in DOMAIN s : s[i] = sep[1] }
           cut   == [k \in 0..(Cardinality(at) + 1) |->
                       IF k = 0 THEN 0
                       ELSE IF k > Cardinality(at) THEN Len(s) + 1
                       ELSE CHOOSE i \in at : Cardinality({ j \in at : j < i }) = k - 1]
       IN  [k \in 1..(Cardinality(at) + 1) |-> SubSeq(s, cut[k - 1] + 1, cut[k] - 1)]
  ELSE LET i == Index(s, sep) IN
       IF i = -1 THEN << s >>
       ELSE << SubSeq(s, 1, i) >> \o Split(SubSeq(s, i + Len(sep) + 1, Len(s)), sep)

\* strings.Join
RECURSIVE Join(_, _)
Join(parts, sep) ==
  IF Len(parts) = 0 THEN << >>
  ELSE IF Len(parts) = 1 THEN parts[1]
  ELSE parts[1] \o sep \o Join(Tail(parts), sep)

\* Byte-wise lexicographic order of Go strings (s < t).
RECURSIVE StrLess(_, _)
StrLess(s, t) ==
  IF Len(t) = 0 THEN FALSE
  ELSE IF Len(s) = 0 THEN TRUE
  ELSE IF Code(s[1]) # Code(t[1]) THEN Code(s[1]) < Code(t[1])
  ELSE StrLess(Tail(s), Tail(t))

\* sort.Strings of a set of distinct strings.
RECURSIVE SortStrings(_)
SortStrings(S) ==
  IF S = {} THEN << >>
  ELSE LET m == CHOOSE x \in S : \A y \in S \ {x} : StrLess(x, y)
       IN  << m >> \o SortStrings(S \ {m})

\* The concatenation of a sequence of strings.
RECURSIVE Concat(_)
Concat(ss) == IF Len(ss) = 0 THEN << >> ELSE ss[1] \o Concat(Tail(ss))

Slash == <<"/">>

(***************************************************************************)
(* The store (pkg/store): a directory tree under a root.  A location is    *)
(* the sequence of path components below the root; the root itself is the  *)
(* empty sequence and always exists.                                       *)
(***************************************************************************)

\* filepath.Clean on a sequence of raw components: empty and "." components
\* disappear, ".." removes the component before it.
RECURSIVE CleanParts(_, _)
CleanParts(raw, acc) ==
  IF Len(raw) = 0 THEN acc
  ELSE IF raw[1] = << >> \/ raw[1] = <<".">> THEN CleanParts(Tail(raw), acc)
  ELSE IF raw[1] = <<".",".">> /\ Len(acc) > 0 /\ acc[Len(acc)] # <<".",".">>
       THEN CleanParts(Tail(raw), SubSeq(acc, 1, Len(acc) - 1))
  ELSE CleanParts(Tail(raw), Append(acc, raw[1]))

\* store.Path: filepath.Join(root, segments...), as the components below the
\* root.  Join drops empty segments and cleans the joined string, so a
\* segment holding "/" contributes several components; segments that are
\* single clean components are the location as they are.
PlainSegment(s) == s \notin { << >>, <<".">>, <<".",".">> } /\ \A i \in DOMAIN s : s[i] # "/"
Path(segments) ==
  IF \A i \in DOMAIN segments : PlainSegment(segments[i]) THEN segments
  ELSE CleanParts(Split(Join(segments, Slash), Slash), << >>)

\* The store root, and store.Path as the path string it returns.
StoreRoot == <<"/","h","o","m","e","/","u","/",".","a","p","k","g">>
PathString(segments) == Join(<< StoreRoot >> \o Path(segments), Slash)

IsPrefix(p, q) == Len(p) <= Len(q) /\ SubSeq(q, 1, Len(p)) = p

EmptyStore == [dirs |-> {}, files |-> << >>]

IsDir(st, p) == p = << >> \/ p \in st.dirs
IsFile(st, p) == p \in DOMAIN st.files

\* store.Exists: os.Stat succeeds on a directory or a file.
Exists(st, segments) == IsDir(st, Path(segments)) \/ IsFile(st, Path(segments))

\* os.MkdirAll on a location: all missing ancestors and the location itself.
\* It fails, creating the directories above the obstacle, when a component is
\* a regular file.
MkdirAll(st, p) ==
  [st EXCEPT !.dirs = @ \cup { SubSeq(p, 1, n) : n \in
        { k \in 1..Len(p) : \A j \in 1..k : ~IsFile(st, SubSeq(p, 1, j)) } }]

\* store.EnsureDir: the error of MkdirAll is dropped.
EnsureDir(st, segments) == MkdirAll(st, Path(segments))

\* store.Remove that removes as os.Remove does: a file, or a directory that
\* has nothing in it.
RemoveLeaf(st, segments) ==
  LET p == Path(segments) IN
  IF \E q \in st.dirs \cup DOMAIN st.files : q # p /\ Len(p) <= Len(q) /\ SubSeq(q, 1, Len(p)) = p
  THEN st
  ELSE [dirs  |-> st.dirs \ { p },
        files |-> [f \in DOMAIN st.files \ { p } |-> st.files[f]]]

\* store.Remove: os.RemoveAll, the location and everything below it.
Remove(st, segments) ==
  LET p == Path(segments) IN
  [dirs  |-> { d \in st.dirs : ~IsPrefix(p, d) },
   files |-> [f \in { f \in DOMAIN st.files : ~IsPrefix(p, f) } |-> st.files[f]]]

\* os.WriteFile succeeds when the parent is a directory and the location is
\* not itself a directory.
CanWrite(st, p) ==
  /\ Len(p) > 0
  /\ IsDir(st, SubSeq(p, 1, Len(p) - 1))
  /\ ~IsDir(st, p)

\* store.WriteFile, the successful case.
WriteFile(st, data, segments) ==
  [st EXCEPT !.files = (Path(segments) :> data) @@ @]

\* The files at or below a location.
FilesUnder(st, p) == { f \in DOMAIN st.files : IsPrefix(p, f) }

\* filepath.Rel(dir, path) for a path at or below dir.
Rel(p, f) ==
  IF f = p THEN <<".">> ELSE Join(SubSeq(f, Len(p) + 1, Len(f)), Slash)

HashPrefix == <<"s","h","a","2","5","6",":">>

\* hex.EncodeToString(sha256(bytes)).  SHA-256 is modelled as collision-free:
\* the digest of a byte sequence is an injective encoding of it that, like a
\* hex string, is never empty and holds no path separator (the inputs hold no
\* percent sign).
Sha256Hex(bytes) ==
  << "#" >> \o [i \in 1..Len(bytes) |-> IF bytes[i] = "/" THEN "%" ELSE bytes[i]]

\* store.HashDir succeeds when the location exists.
CanHashDir(st, segments) == Exists(st, segments)

\* The order in which filepath.WalkDir meets two locations: directory
\* entries are visited in the byte order of their names, a directory's
\* content before its next sibling.
RECURSIVE WalkLess(_, _)
WalkLess(f, g) ==
  IF Len(g) = 0 THEN FALSE
  ELSE IF Len(f) = 0 THEN TRUE
  ELSE IF f[1] # g[1] THEN StrLess(f[1], g[1])
  ELSE WalkLess(Tail(f), Tail(g))

\* The locations of a set in the order WalkDir visits them.
RECURSIVE WalkOrder(_)
WalkOrder(F) ==
  IF F = {} THEN << >>
  ELSE LET m == CHOOSE x \in F : \A y \in F \ {x} : WalkLess(x, y)
       IN  << m >> \o WalkOrder(F \ {m})

\* The walk of HashDir: the relative path of every file that is not a
\* directory, in the order WalkDir visits them.
WalkDir(st, p) ==
  LET walk == WalkOrder(FilesUnder(st, p)) IN
  [i \in 1..Len(walk) |-> Rel(p, walk[i])]

\* The loop of HashDir over the collected relative paths: each path's bytes
\* followed by the bytes os.ReadFile gives for filepath.Join(dir, path), in
\* one SHA-256.
hashWrites(st, p, files) ==
  Concat([i \in 1..Len(files) |->
     files[i] \o st.files[CleanParts(p \o Split(files[i], Slash), << >>)]])

\* hashPrefix and the hex encoding of the sum.
hashFiles(st, p, files) == HashPrefix \o Sha256Hex(hashWrites(st, p, files))

\* store.HashDir without sort.Strings: the files in the order of the walk.
HashDirWalked(st, segments) ==
  hashFiles(st, Path(segments), WalkDir(st, Path(segments)))

\* store.HashDir: the relative paths of the files below the location, sorted,
\* each path's bytes followed by the file's bytes, in one SHA-256.
HashDir(st, segments) ==
  LET files == WalkDir(st, Path(segments)) IN
  hashFiles(st, Path(segments), SortStrings({ files[i] : i \in DOMAIN files }))
(***************************************************************************)
(* The result of a Fetch: the store afterwards, the error ("" for none),   *)
(* the ResolvedSource, the cache segments the call worked on and the       *)
(* subprocesses (or HTTP requests) it started, in order.                   *)
(***************************************************************************)

NoResolved == [Dir |-> << >>, Commit |-> << >>, Ref |-> << >>, Integrity |-> << >>]

Outcome(st, err, res, segs, ops) ==
  [store |-> st, err |-> err, res |-> res, segs |-> segs, ops |-> ops]

McpFileName == <<"m","c","p",".","t","o","m","l">>

(***************************************************************************)
(* The git remote, as the git client shows it.  One repository with two    *)
(* commits whose hashes share their first seven characters, a branch       *)
(* "main" that is at one of them, a lightweight tag v1.0 and an annotated  *)
(* tag v2.0 on the first commit.                                           *)
(***************************************************************************)

CommitHashLen == 40
ShortHashMin == 7

Pad(prefix, c) == prefix \o [i \in 1..(CommitHashLen - Len(prefix)) |-> c]

CommitA == Pad(<<"a","b","c","d","e","f","1","0">>, "0")
CommitB == Pad(<<"a","b","c","d","e","f","1","1">>, "0")
TagObj  == Pad(<<"7","7","e","0">>, "5")

RepoURL == <<"h","t","t","p","s",":","/","/","g","i","t","h","u","b",".","c","o","m","/","o","/","r",".","g","i","t">>
RepoSSH == <<"g","i","t","@","g","i","t","h","u","b",".","c","o","m",":","o","/","r",".","g","i","t">>
RepoURLs == { RepoURL, RepoSSH }

\* The work tree of each commit: location below the clone root -> content.
TreeOf(commit) ==
  IF commit = CommitA
  THEN (<< <<"R","E","A","D","M","E",".","m","d">> >> :> <<"A">>) @@
       (<< <<"s","k","i","l","l","s">>, <<"p","d","f">>, <<"S","K","I","L","L",".","m","d">> >> :> <<"p","d","f","A">>)
  ELSE (<< <<"R","E","A","D","M","E",".","m","d">> >> :> <<"B">>) @@
       (<< <<"s","k","i","l","l","s">>, <<"p","d","f">>, <<"S","K","I","L","L",".","m","d">> >> :> <<"p","d","f","B">>)

\* `git ls-remote <url>`: every advertised ref, one <<hash, name>> per line.
Listing(remote) ==
  << << remote.main, <<"H","E","A","D">> >>,
     << remote.main, <<"r","e","f","s","/","h","e","a","d","s","/","m","a","i","n">> >>,
     << CommitA, <<"r","e","f","s","/","t","a","g","s","/","v","1",".","0">> >>,
     << TagObj,  <<"r","e","f","s","/","t","a","g","s","/","v","2",".","0">> >>,
     << CommitA, <<"r","e","f","s","/","t","a","g","s","/","v","2",".","0","^","{","}">> >> >>

\* A ref name matches an ls-remote pattern when it is the pattern or ends
\* with "/" and the pattern.
RefMatches(name, pattern) == name = pattern \/ HasSuffix(name, Slash \o pattern)

\* The remote answers when it is reachable, the URL names the repository and
\* the context is live.
RemoteAnswers(remote, url, ctxLive) == remote.up /\ ctxLive /\ url \in RepoURLs

\* `git ls-remote <url> <patterns>`: the advertised lines matching a pattern.
Advertised(listing, patterns) ==
  SelectSeq(listing, LAMBDA line : \E p \in patterns : RefMatches(line[2], p))

LsRemote(remote, patterns) == Advertised(Listing(remote), patterns)

\* The commit a branch or tag name checks out to, << >> when there is none.
TipOf(remote, ref) ==
  LET peeled == LsRemote(remote, { ref \o <<"^","{","}">> })
      plain  == LsRemote(remote, { ref })
  IN  IF Len(peeled) > 0 THEN peeled[1][1]
      ELSE IF Len(plain) > 0 THEN plain[Len(plain)][1]
      ELSE << >>

(***************************************************************************)
(* GitSource (pkg/source/git.go).                                          *)
(***************************************************************************)

HexChars == { "0","1","2","3","4","5","6","7","8","9",
              "a","b","c","d","e","f","A","B","C","D","E","F" }

\* isHexString
isHexString(s) == Len(s) # 0 /\ \A i \in 1..Len(s) : s[i] \in HexChars

\* isCommitHash
isCommitHash(s) == Len(s) = CommitHashLen /\ isHexString(s)

\* isShortCommitHash
isShortCommitHash(s) ==
  Len(s) >= ShortHashMin /\ Len(s) < CommitHashLen /\ isHexString(s)

\* The scan of resolveRef without the preference for the dereferenced line:
\* the hash of the last line.
RECURSIVE scanNamedLast(_, _)
scanNamedLast(lines, commit) ==
  IF Len(lines) = 0 THEN commit
  ELSE IF Len(lines[1]) < 2 THEN scanNamedLast(Tail(lines), commit)
  ELSE scanNamedLast(Tail(lines), lines[1][1])

\* The scan of resolveRef over the ls-remote lines: the hash of the first
\* dereferenced (^{}) line, else the hash of the last line.
RECURSIVE scanNamed(_, _)
scanNamed(lines, commit) ==
  IF Len(lines) = 0 THEN commit
  ELSE IF Len(lines[1]) < 2 THEN scanNamed(Tail(lines), commit)
  ELSE IF HasSuffix(lines[1][2], <<"^","{","}">>) THEN lines[1][1]
  ELSE scanNamed(Tail(lines), lines[1][1])

\* resolveRef on the output of `git ls-remote <url> <ref> <ref>^{}`.
resolveNamed(lines) ==
  LET commit == scanNamed(lines, << >>)
  IN  IF commit = << >>
      THEN [err |-> "notfound", commit |-> << >>]
      ELSE [err |-> "", commit |-> commit]

\* The scan of resolveShortHash: [err, match] after the lines.
\* The scan of resolveShortHash without the comparison with the match so
\* far: the last matching hash wins.
RECURSIVE scanShortLast(_, _, _)
scanShortLast(lines, prefix, match) ==
  IF Len(lines) = 0 THEN [err |-> "", match |-> match]
  ELSE IF Len(lines[1]) < 2 THEN scanShortLast(Tail(lines), prefix, match)
  ELSE IF ~HasPrefix(ToLower(lines[1][1]), prefix)
       THEN scanShortLast(Tail(lines), prefix, match)
  ELSE scanShortLast(Tail(lines), prefix, ToLower(lines[1][1]))

RECURSIVE scanShort(_, _, _)
scanShort(lines, prefix, match) ==
  IF Len(lines) = 0 THEN [err |-> "", match |-> match]
  ELSE IF Len(lines[1]) < 2 THEN scanShort(Tail(lines), prefix, match)
  ELSE IF ~HasPrefix(ToLower(lines[1][1]), prefix)
       THEN scanShort(Tail(lines), prefix, match)
  ELSE IF match # << >> /\ match # ToLower(lines[1][1])
       THEN [err |-> "ambiguous", match |-> << >>]
  ELSE scanShort(Tail(lines), prefix, ToLower(lines[1][1]))

\* GitSource.resolveShortHash on the output of `git ls-remote <url>`.
resolveShortHash(ref, lines) ==
  LET r == scanShort(lines, ToLower(ref), << >>) IN
  IF r.err # "" THEN [err |-> r.err, commit |-> << >>]
  ELSE IF r.match = << >> THEN [err |-> "notfound", commit |-> << >>]
  ELSE [err |-> "", commit |-> r.match]

\* GitSource.resolveRef asking the remote about a full hash as well.
resolveRefAsking(g, remote, ctxLive) ==
  IF isCommitHash(g.Ref) /\ RemoteAnswers(remote, g.URL, ctxLive)
  THEN [err |-> "", commit |-> g.Ref, ops |-> << "ls-remote" >>]
  ELSE IF ~RemoteAnswers(remote, g.URL, ctxLive)
  THEN [err |-> "exec", commit |-> << >>, ops |-> << "ls-remote" >>]
  ELSE IF isShortCommitHash(g.Ref)
  THEN [ops |-> << "ls-remote" >>] @@ resolveShortHash(g.Ref, Listing(remote))
  ELSE [ops |-> << "ls-remote" >>]
         @@ resolveNamed(LsRemote(remote, { g.Ref, g.Ref \o <<"^","{","}">> }))

\* GitSource.resolveRef: [err, commit, ops].
resolveRef(g, remote, ctxLive) ==
  IF isCommitHash(g.Ref)
  THEN [err |-> "", commit |-> g.Ref, ops |-> << >>]
  ELSE IF ~RemoteAnswers(remote, g.URL, ctxLive)
  THEN [err |-> "exec", commit |-> << >>, ops |-> << "ls-remote" >>]
  ELSE IF isShortCommitHash(g.Ref)
  THEN [ops |-> << "ls-remote" >>] @@ resolveShortHash(g.Ref, Listing(remote))
  ELSE [ops |-> << "ls-remote" >>]
         @@ resolveNamed(LsRemote(remote, { g.Ref, g.Ref \o <<"^","{","}">> }))

\* parseGitURL that takes the host of a URL with a scheme to be all that
\* stands before the path, the userinfo included.
parseGitURLAuthority(rawURL) ==
  LET idx == Index(rawURL, <<":">>) IN
  IF idx > 0 /\ ~Contains(SubSeq(rawURL, 1, idx), Slash) /\ ~Contains(rawURL, <<":","/","/">>)
  THEN LET h  == SubSeq(rawURL, 1, idx)
           at == Index(h, <<"@">>)
       IN  [host     |-> IF at >= 0 THEN SubSeq(h, at + 2, Len(h)) ELSE h,
            repoPath |-> TrimSuffix(SubSeq(rawURL, idx + 2, Len(rawURL)), <<".","g","i","t">>)]
  ELSE LET rest  == SubSeq(rawURL, Index(rawURL, <<":","/","/">>) + 4, Len(rawURL))
           slash == Index(rest, Slash)
       IN  [host     |-> IF slash = -1 THEN rest ELSE SubSeq(rest, 1, slash),
            repoPath |-> TrimSuffix(TrimPrefix(
                           IF slash = -1 THEN << >> ELSE SubSeq(rest, slash + 1, Len(rest)),
                           Slash), <<".","g","i","t">>)]

\* parseGitURL: [host, repoPath] of an SSH shorthand, or of what url.Parse
\* makes of the string: with a scheme, the host is the authority without its
\* userinfo and the path is what follows it; without one, the whole string is
\* the path and the host is empty.
parseGitURL(rawURL) ==
  LET idx == Index(rawURL, <<":">>) IN
  IF idx > 0 /\ ~Contains(SubSeq(rawURL, 1, idx), Slash) /\ ~Contains(rawURL, <<":","/","/">>)
  THEN LET h  == SubSeq(rawURL, 1, idx)
           at == Index(h, <<"@">>)
       IN  [host     |-> IF at >= 0 THEN SubSeq(h, at + 2, Len(h)) ELSE h,
            repoPath |-> TrimSuffix(SubSeq(rawURL, idx + 2, Len(rawURL)), <<".","g","i","t">>)]
  ELSE LET scheme == Contains(rawURL, <<":","/","/">>)
           rest   == IF scheme
                     THEN SubSeq(rawURL, Index(rawURL, <<":","/","/">>) + 4, Len(rawURL))
                     ELSE << >>
           slash  == Index(rest, Slash)
           auth   == IF slash = -1 THEN rest ELSE SubSeq(rest, 1, slash)
           user   == LastIndex(auth, <<"@">>)
           upath  == IF ~scheme THEN rawURL
                     ELSE IF slash = -1 THEN << >>
                     ELSE SubSeq(rest, slash + 1, Len(rest))
       IN  [host     |-> IF user >= 0 THEN SubSeq(auth, user + 2, Len(auth)) ELSE auth,
            repoPath |-> TrimSuffix(TrimPrefix(upath, Slash), <<".","g","i","t">>)]

\* GitSource.repoSegments
repoSegments(g, commit) ==
  << <<"r","e","p","o","s">>, parseGitURL(g.URL).host >>
  \o Split(parseGitURL(g.URL).repoPath, Slash)
  \o << commit >>

\* The files a finished clone holds at dest: the work tree of the commit and
\* the repository's HEAD.
CloneFiles(dest, commit, head) ==
  LET tree == TreeOf(commit) IN
  [f \in { dest \o r : r \in DOMAIN tree } \cup { dest \o << <<".","g","i","t">>, <<"H","E","A","D">> >> } |->
     IF f = dest \o << <<".","g","i","t">>, <<"H","E","A","D">> >> THEN head
     ELSE tree[SubSeq(f, Len(dest) + 1, Len(f))]]

\* The directories of a finished clone at dest.
CloneDirs(dest, commit) ==
  UNION { { dest \o SubSeq(r, 1, n) : n \in 0..(Len(r) - 1) } :
            r \in DOMAIN CloneFiles(<< >>, commit, << >>) }

\* A directory that exists and holds something.
NonEmptyDir(st, p) ==
  IsDir(st, p) /\ \E q \in st.dirs \cup DOMAIN st.files : IsPrefix(p, q) /\ q # p

\* GitSource.cloneBranch: `git clone --depth 1 --branch <ref> <url> <dest>`.
\* git refuses a destination that exists and is not an empty directory, and
\* checks out what the ref points at when the clone runs.  A clone killed by
\* a cancelled context leaves a partial .git behind; one that fails removes
\* what it created.
cloneBranch(g, st, dest, remote, ctxLive) ==
  LET tip == TipOf(remote, g.Ref) IN
  IF ~ctxLive
  THEN [ok |-> FALSE, store |-> MkdirAll(st, dest \o << <<".","g","i","t">> >>)]
  ELSE IF ~RemoteAnswers(remote, g.URL, ctxLive) \/ tip = << >>
          \/ NonEmptyDir(st, dest) \/ IsFile(st, dest)
  THEN [ok |-> FALSE, store |-> st]
  ELSE [ok |-> TRUE,
        store |-> [dirs  |-> st.dirs \cup CloneDirs(dest, tip),
                   files |-> CloneFiles(dest, tip,
                               IF g.Ref = <<"m","a","i","n">> THEN <<"r","e","f",":"," ","r","e","f","s","/","h","e","a","d","s","/","m","a","i","n">>
                               ELSE tip) @@ st.files]]

\* GitSource.cloneCommit: init, remote add, fetch --depth 1 origin <commit>,
\* checkout FETCH_HEAD.  `git init` makes the directory and its .git;
\* `remote add` fails in a repository that already has the remote; the fetch
\* needs the remote to hold the commit (git reads the hash in either case).
\* A failure after `git init` leaves the initialised directory behind.
cloneCommit(g, st, dest, commit, remote, ctxLive) ==
  LET inited == MkdirAll(st, dest \o << <<".","g","i","t">> >>) IN
  IF IsFile(st, dest) THEN [ok |-> FALSE, store |-> st]
  ELSE IF ~ctxLive \/ IsDir(st, dest \o << <<".","g","i","t">> >>)
          \/ ~RemoteAnswers(remote, g.URL, ctxLive)
          \/ ToLower(commit) \notin { CommitA, CommitB }
  THEN [ok |-> FALSE, store |-> inited]
  ELSE [ok |-> TRUE,
        store |-> [dirs  |-> inited.dirs \cup CloneDirs(dest, ToLower(commit)),
                   files |-> CloneFiles(dest, ToLower(commit), ToLower(commit))
                             @@ inited.files]]

\* GitSource.clone
clone(g, st, dest, commit, remote, ctxLive) ==
  IF isHexString(g.Ref) THEN cloneCommit(g, st, dest, commit, remote, ctxLive)
  ELSE cloneBranch(g, st, dest, remote, ctxLive)

\* The subprocesses of a clone.
cloneOps(g) == IF isHexString(g.Ref) THEN << "init", "remote-add", "fetch", "checkout" >>
               ELSE << "clone" >>

\* The content segments without the sub-path: the whole clone.
contentSegsRoot(g, segs) == segs

\* The content segments of a git source: the clone plus the sub-path.
contentSegs(g, segs) == IF g.Path # << >> THEN segs \o Split(g.Path, Slash) ELSE segs

\* GitSource.Fetch, from the integrity hash on (steps 6 and 7).
GitFinish(g, st, commit, segs, ops) ==
  IF ~CanHashDir(st, contentSegs(g, segs))
  THEN Outcome(st, "hash", NoResolved, segs, ops)
  ELSE Outcome(st, "",
               [Dir       |-> PathString(contentSegs(g, segs)),
                Commit    |-> commit,
                Ref       |-> g.Ref,
                Integrity |-> HashDir(st, contentSegs(g, segs))],
               segs, ops)

\* GitSource.Fetch without its cache check (step 3): every call clones.
GitFetchUncached(g, st, remote, ctxLive) ==
  LET rr   == resolveRef(g, remote, ctxLive)
      segs == repoSegments(g, rr.commit)
  IN
  IF rr.err # "" THEN Outcome(st, rr.err, NoResolved, << >>, rr.ops)
  ELSE LET made == EnsureDir(st, SubSeq(segs, 1, Len(segs) - 1))
           cl   == clone(g, made, Path(segs), rr.commit, remote, ctxLive)
       IN  IF ~cl.ok
           THEN Outcome(Remove(cl.store, segs), "clone", NoResolved, segs,
                        rr.ops \o cloneOps(g))
           ELSE GitFinish(g, cl.store, rr.commit, segs, rr.ops \o cloneOps(g))

\* GitSource.Fetch
GitFetch(g, st, remote, ctxLive) ==
  LET rr   == resolveRef(g, remote, ctxLive)
      segs == repoSegments(g, rr.commit)
  IN
  IF rr.err # "" THEN Outcome(st, rr.err, NoResolved, << >>, rr.ops)
  ELSE IF Exists(st, segs) THEN GitFinish(g, st, rr.commit, segs, rr.ops)
  ELSE LET made == EnsureDir(st, SubSeq(segs, 1, Len(segs) - 1))
           cl   == clone(g, made, Path(segs), rr.commit, remote, ctxLive)
       IN  IF ~cl.ok
           THEN Outcome(Remove(cl.store, segs), "clone", NoResolved, segs,
                        rr.ops \o cloneOps(g))
           ELSE GitFinish(g, cl.store, rr.commit, segs, rr.ops \o cloneOps(g))

(***************************************************************************)
(* MCP server configuration (config.MCPSource) and its TOML form.          *)
(***************************************************************************)

\* config.MCPSource, flattened: the fields the sources read or write.  Env
\* stands for the value of one environment variable ("" for none).
MCPSource(transport, name, package, image, command, env) ==
  [Transport |-> transport, Name |-> name, Package |-> package, Image |-> image,
   Digest |-> << >>, Path |-> << >>, Command |-> command, Env |-> env,
   Container |-> image # << >>]

TomlLine(key, value) ==
  IF value = << >> THEN << >> ELSE key \o <<" ","="," ","'">> \o value \o <<"'","\n">>

\* toml.Marshal(config.MCPSource): transport always, every other field only
\* when it is set (omitempty), the env table last.
Marshal(c) ==
  <<"t","r","a","n","s","p","o","r","t"," ","="," ","'">> \o c.Transport \o <<"'","\n">>
  \o TomlLine(<<"n","a","m","e">>, c.Name)
  \o TomlLine(<<"i","m","a","g","e">>, c.Image)
  \o TomlLine(<<"p","a","t","h">>, c.Path)
  \o TomlLine(<<"d","i","g","e","s","t">>, c.Digest)
  \o TomlLine(<<"p","a","c","k","a","g","e">>, c.Package)
  \o TomlLine(<<"c","o","m","m","a","n","d">>, c.Command)
  \o (IF c.Env = << >> THEN << >> ELSE <<"\n","[","e","n","v","]","\n">> \o TomlLine(<<"K","E","Y">>, c.Env))

\* writeMCPConfig of NPMSource, UVSource, GoSource and OCISource: mcp.toml
\* next to the content.  diskOK is whether the file system takes the write.
writeMCPConfig(st, cfg, segs, diskOK) ==
  IF diskOK /\ CanWrite(st, Path(segs \o << McpFileName >>))
  THEN [ok |-> TRUE, store |-> WriteFile(st, Marshal(cfg), segs \o << McpFileName >>)]
  ELSE [ok |-> FALSE, store |-> st]

\* The tail every managed-package Fetch ends with: the integrity hash and the
\* ResolvedSource.
HashAndReturn(st, segs, ops) ==
  IF ~CanHashDir(st, segs) THEN Outcome(st, "hash", NoResolved, segs, ops)
  ELSE Outcome(st, "",
               [Dir |-> PathString(segs), Commit |-> << >>, Ref |-> << >>,
                Integrity |-> HashDir(st, segs)],
               segs, ops)

\* What an install tool puts at a location: the directories above each file
\* and the files.
Installed(st, dest, files) ==
  [dirs  |-> st.dirs
             \cup UNION { { dest \o SubSeq(r, 1, n) : n \in 0..(Len(r) - 1) } :
                          r \in DOMAIN files },
   files |-> [f \in { dest \o r : r \in DOMAIN files } |->
                files[SubSeq(f, Len(dest) + 1, Len(f))]] @@ st.files]

(***************************************************************************)
(* NPMSource (pkg/source/npm.go).                                          *)
(***************************************************************************)

\* A JSON document as encoding/json sees it: a string, an array of
\* documents, null, a number or an object, or text that is no JSON at all
\* ("none": the empty output).
JString(text) == [t |-> "string", s |-> text, a |-> << >>]
JArray(elems) == [t |-> "array", s |-> << >>, a |-> elems]
JOther(t) == [t |-> t, s |-> << >>, a |-> << >>]

\* json.Unmarshal(out, &version) for a string: a JSON string sets it, null
\* leaves it as it is, everything else is an error.
UnmarshalString(out) ==
  IF out.t = "string" THEN [ok |-> TRUE, v |-> out.s]
  ELSE IF out.t = "null" THEN [ok |-> TRUE, v |-> << >>]
  ELSE [ok |-> FALSE, v |-> << >>]

\* json.Unmarshal(out, &versions) for a []string: an array of strings and
\* nulls sets it (a null element is the empty string), null gives the nil
\* slice, everything else is an error.
UnmarshalStrings(out) ==
  IF out.t = "null" THEN [ok |-> TRUE, v |-> << >>]
  ELSE IF out.t = "array" /\ \A i \in DOMAIN out.a : out.a[i].t \in { "string", "null" }
  THEN [ok |-> TRUE, v |-> [i \in DOMAIN out.a |-> out.a[i].s]]
  ELSE [ok |-> FALSE, v |-> << >>]

\* The npm registry: the JSON `npm view <spec> version --json` prints.  A
\* bare name or an exact version gives the version as a string, a range
\* gives the list of matching versions, a dist-tag without a version and a
\* package without dist-tags give an empty list or no output at all, a
\* numeric field gives a number, an unknown package makes npm fail.
NpmView(spec, gen) ==
  IF spec = <<"i","s","-","n","u","m","b","e","r">>
  THEN [ok |-> TRUE, json |-> JString(IF gen = 1 THEN <<"7",".","0",".","0">> ELSE <<"7",".","0",".","1">>)]
  ELSE IF spec = <<"i","s","-","n","u","m","b","e","r","@","7",".","0",".","0">>
  THEN [ok |-> TRUE, json |-> JString(<<"7",".","0",".","0">>)]
  ELSE IF spec = <<"@","s","/","p","@","^","1">>
  THEN [ok |-> TRUE,
        json |-> JArray(IF gen = 1 THEN << JString(<<"1",".","0",".","0">>), JString(<<"1",".","1",".","0">>) >>
                        ELSE << JString(<<"1",".","0",".","0">>), JString(<<"1",".","1",".","0">>), JString(<<"1",".","2",".","0">>) >>)]
  ELSE IF spec = <<"i","s","-","n","u","m","b","e","r","@",">","=","6">>
  THEN [ok |-> TRUE,
        json |-> JArray(<< JString(<<"6",".","0",".","0">>), JString(<<"7",".","0",".","0">>), JString(<<"7",".","0",".","1">>) >>)]
  ELSE IF spec = <<"i","s","-","n","u","m","b","e","r","@","7",".","0",".","x">>
  THEN [ok |-> TRUE,
        json |-> JArray(IF gen = 1 THEN << JString(<<"7",".","0",".","0">>) >>
                        ELSE << JString(<<"7",".","0",".","0">>), JString(<<"7",".","0",".","1">>) >>)]
  ELSE IF spec = <<"i","s","-","n","u","m","b","e","r","@","<","1">>
  THEN [ok |-> TRUE, json |-> JArray(<< >>)]
  ELSE IF spec = <<"i","s","-","n","u","m","b","e","r","@","9">>
  THEN [ok |-> TRUE, json |-> JOther("none")]
  ELSE IF spec = <<"n","@","1">>
  THEN [ok |-> TRUE, json |-> JOther("number")]
  ELSE IF spec = <<"o","@","1">>
  THEN [ok |-> TRUE, json |-> JOther("object")]
  ELSE [ok |-> FALSE, json |-> JOther("none")]

\* NPMSource.packageName
npmPackageName(package) ==
  IF LastIndex(package, <<"@">>) > 0
  THEN SubSeq(package, 1, LastIndex(package, <<"@">>))
  ELSE package

\* NPMSource.resolveConcreteVersion choosing the last version of a list.
npmResolveLastListed(s, net, gen) ==
  LET out == NpmView(s.Package, gen) IN
  IF ~net \/ ~out.ok THEN [err |-> "exec", version |-> << >>]
  ELSE IF UnmarshalString(out.json).ok
  THEN [err |-> "", version |-> UnmarshalString(out.json).v]
  ELSE IF ~UnmarshalStrings(out.json).ok THEN [err |-> "parse", version |-> << >>]
  ELSE IF Len(UnmarshalStrings(out.json).v) = 0
  THEN [err |-> "noversions", version |-> << >>]
  ELSE [err |-> "",
        version |-> UnmarshalStrings(out.json).v[Len(UnmarshalStrings(out.json).v)]]

\* NPMSource.resolveConcreteVersion
npmResolveConcreteVersion(s, net, gen) ==
  LET out == NpmView(s.Package, gen) IN
  IF ~net \/ ~out.ok THEN [err |-> "exec", version |-> << >>]
  ELSE IF UnmarshalString(out.json).ok
  THEN [err |-> "", version |-> UnmarshalString(out.json).v]
  ELSE IF ~UnmarshalStrings(out.json).ok THEN [err |-> "parse", version |-> << >>]
  ELSE IF Len(UnmarshalStrings(out.json).v) = 0
  THEN [err |-> "noversions", version |-> << >>]
  ELSE [err |-> "", version |-> UnmarshalStrings(out.json).v[1]]

\* NPMSource.getStoreSegments
npmGetStoreSegments(s, resolvedVersion) ==
  << <<"n","p","m">> >> \o Split(npmPackageName(s.Package), Slash) \o << resolvedVersion >>

\* NPMSource.install: `npm install --prefix <dest> <name>@<version>`.  It
\* creates the prefix and, when it fails, leaves what it had written.
npmInstall(s, st, dest, version, net) ==
  LET name == npmPackageName(s.Package) IN
  IF ~net
  THEN [ok |-> FALSE, store |-> MkdirAll(st, dest \o << <<"n","o","d","e","_","m","o","d","u","l","e","s">> >>)]
  ELSE [ok |-> TRUE,
        store |-> Installed(st, dest,
          (<< <<"p","a","c","k","a","g","e",".","j","s","o","n">> >> :> name \o <<"@">> \o version) @@
          (<< <<"n","o","d","e","_","m","o","d","u","l","e","s">> >> \o Split(name, Slash) \o << <<"p","a","c","k","a","g","e",".","j","s","o","n">> >>
             :> version))]

\* NPMSource.Fetch
NPMFetch(s, st, net, diskOK, gen) ==
  LET rv   == npmResolveConcreteVersion(s, net, gen)
      segs == npmGetStoreSegments(s, rv.version)
  IN
  IF rv.err # "" THEN Outcome(st, rv.err, NoResolved, << >>, << "npm-view" >>)
  ELSE IF Exists(st, segs) THEN HashAndReturn(st, segs, << "npm-view" >>)
  ELSE LET inst == npmInstall(s, EnsureDir(st, segs), Path(segs), rv.version, net)
           wr   == writeMCPConfig(inst.store, s.MCPConfig, segs, diskOK)
           ops  == << "npm-view", "npm-install" >>
       IN  IF ~inst.ok
           THEN Outcome(Remove(inst.store, segs), "install", NoResolved, segs, ops)
           ELSE IF ~wr.ok
           THEN Outcome(Remove(wr.store, segs), "write", NoResolved, segs, ops)
           ELSE HashAndReturn(wr.store, segs, ops)

(***************************************************************************)
(* UVSource (pkg/source/uv.go).                                            *)
(***************************************************************************)

\* The version PyPI's JSON endpoint reports for a package, << >> for a
\* package it does not have (a non-200 answer).
PypiLatest(name, gen) ==
  IF name = <<"m","c","p","-","s","e","r","v","e","r","-","g","i","t">>
  THEN (IF gen = 1 THEN <<"2","0","2","6",".","1",".","1","4">> ELSE <<"2","0","2","6",".","2",".","1">>)
  ELSE << >>

\* The versions PyPI can install.
PypiHas(name, version) ==
  name = <<"m","c","p","-","s","e","r","v","e","r","-","g","i","t">> /\ version \in { <<"2","0","2","6",".","1",".","1","4">>, <<"2","0","2","6",".","2",".","1">> }

\* UVSource.packageName
uvPackageName(package) ==
  IF Index(package, <<"=","=">>) >= 0 THEN SubSeq(package, 1, Index(package, <<"=","=">>))
  ELSE package

\* UVSource.resolveConcreteVersion taking the text after the last "==" of
\* the spec as the pinned version.
uvResolveLastPin(s, net, gen) ==
  IF LastIndex(s.Package, <<"=","=">>) >= 0
  THEN [err |-> "", ops |-> << >>,
        version |-> SubSeq(s.Package, LastIndex(s.Package, <<"=","=">>) + 3, Len(s.Package))]
  ELSE IF ~net
  THEN [err |-> "http", version |-> << >>, ops |-> << "pypi-get" >>]
  ELSE IF PypiLatest(uvPackageName(s.Package), gen) = << >>
  THEN [err |-> "status", version |-> << >>, ops |-> << "pypi-get" >>]
  ELSE [err |-> "", version |-> PypiLatest(uvPackageName(s.Package), gen),
        ops |-> << "pypi-get" >>]

\* UVSource.resolveConcreteVersion: [err, version, ops].
uvResolveConcreteVersion(s, net, gen) ==
  IF Index(s.Package, <<"=","=">>) >= 0
  THEN [err |-> "", ops |-> << >>,
        version |-> SubSeq(s.Package, Index(s.Package, <<"=","=">>) + 3, Len(s.Package))]
  ELSE IF ~net
  THEN [err |-> "http", version |-> << >>, ops |-> << "pypi-get" >>]
  ELSE IF PypiLatest(uvPackageName(s.Package), gen) = << >>
  THEN [err |-> "status", version |-> << >>, ops |-> << "pypi-get" >>]
  ELSE [err |-> "", version |-> PypiLatest(uvPackageName(s.Package), gen),
        ops |-> << "pypi-get" >>]

\* UVSource.getStoreSegments
uvGetStoreSegments(s, resolvedVersion) ==
  << <<"u","v">>, uvPackageName(s.Package), resolvedVersion >>

\* UVSource.install: `uv venv <dest>/.venv`, then `uv pip install` of the
\* pinned version into it.  The venv needs no network; the install does, and
\* fails for a version PyPI does not have.
uvInstall(s, st, dest, version, net) ==
  LET venv == Installed(st, dest, (<< <<".","v","e","n","v">>, <<"p","y","v","e","n","v",".","c","f","g">> >> :> <<"u","v">>)) IN
  IF ~net \/ ~PypiHas(uvPackageName(s.Package), version)
  THEN [ok |-> FALSE, store |-> venv]
  ELSE [ok |-> TRUE,
        store |-> Installed(venv, dest,
          (<< <<".","v","e","n","v">>, <<"l","i","b">>, uvPackageName(s.Package) >> :> version))]

\* UVSource.Fetch with a rollback after a failed descriptor write as well.
UVFetchRollback(s, st, net, diskOK, gen) ==
  LET rv   == uvResolveConcreteVersion(s, net, gen)
      segs == uvGetStoreSegments(s, rv.version)
  IN
  IF rv.err # "" THEN Outcome(st, rv.err, NoResolved, << >>, rv.ops)
  ELSE LET cached == Exists(st, segs)
           inst == IF cached THEN [ok |-> TRUE, store |-> st]
                   ELSE uvInstall(s, EnsureDir(st, segs), Path(segs), rv.version, net)
           ops  == IF cached THEN rv.ops ELSE rv.ops \o << "uv-venv", "uv-pip-install" >>
           wr   == writeMCPConfig(inst.store, s.MCPConfig, segs, diskOK)
       IN  IF ~inst.ok
           THEN Outcome(Remove(inst.store, segs), "install", NoResolved, segs, ops)
           ELSE IF ~wr.ok THEN Outcome(Remove(wr.store, segs), "write", NoResolved, segs, ops)
           ELSE HashAndReturn(wr.store, segs, ops)

\* UVSource.Fetch
UVFetch(s, st, net, diskOK, gen) ==
  LET rv   == uvResolveConcreteVersion(s, net, gen)
      segs == uvGetStoreSegments(s, rv.version)
  IN
  IF rv.err # "" THEN Outcome(st, rv.err, NoResolved, << >>, rv.ops)
  ELSE LET cached == Exists(st, segs)
           inst == IF cached THEN [ok |-> TRUE, store |-> st]
                   ELSE uvInstall(s, EnsureDir(st, segs), Path(segs), rv.version, net)
           ops  == IF cached THEN rv.ops ELSE rv.ops \o << "uv-venv", "uv-pip-install" >>
           wr   == writeMCPConfig(inst.store, s.MCPConfig, segs, diskOK)
       IN  IF ~inst.ok
           THEN Outcome(Remove(inst.store, segs), "install", NoResolved, segs, ops)
           ELSE IF ~wr.ok THEN Outcome(wr.store, "write", NoResolved, segs, ops)
           ELSE HashAndReturn(wr.store, segs, ops)

(***************************************************************************)
(* GoSource (pkg/source/go.go).                                            *)
(***************************************************************************)

GoModule == <<"e","x","a","m","p","l","e",".","c","o","m","/","m">>
GoSubPackage == <<"e","x","a","m","p","l","e",".","c","o","m","/","m","/","c","m","d","/","t","o","o","l">>

\* The version the module proxy resolves a version query of the module to,
\* << >> when it has none.
GoProxyVersion(ver, gen) ==
  IF ver = <<"l","a","t","e","s","t">> THEN (IF gen = 1 THEN <<"v","1",".","2",".","0">> ELSE <<"v","1",".","3",".","0">>)
  ELSE IF ver \in { <<"v","1",".","2",".","0">>, <<"v","1",".","3",".","0">> } THEN ver
  ELSE << >>

\* `go list -m -f {{.Version}} <mod>@<ver>`: the concrete version of a module
\* root, << >> when the command fails (no network, or the path names a
\* package inside a module).
GoListM(mod, ver, net, gen) ==
  IF net /\ mod = GoModule THEN GoProxyVersion(ver, gen) ELSE << >>

\* GoSource.modulePath
modulePath(package) ==
  IF LastIndex(package, <<"@">>) > 0
  THEN SubSeq(package, 1, LastIndex(package, <<"@">>))
  ELSE package

\* GoSource.versionSuffix
versionSuffix(package) ==
  IF LastIndex(package, <<"@">>) > 0
  THEN SubSeq(package, LastIndex(package, <<"@">>) + 2, Len(package))
  ELSE <<"l","a","t","e","s","t">>

\* GoSource.resolveConcreteVersion: the listed version, else the version the
\* user wrote.
goResolveConcreteVersion(s, net, gen) ==
  LET out == GoListM(modulePath(s.Package), versionSuffix(s.Package), net, gen) IN
  IF out # << >> THEN out ELSE versionSuffix(s.Package)

\* GoSource.getStoreSegments
goGetStoreSegments(s, resolvedVersion) ==
  << <<"g","o">> >> \o Split(modulePath(s.Package), Slash) \o << resolvedVersion >>

\* GoSource.install: `go install <path>@<version>` with GOBIN=<dest>/bin.  It
\* builds the version the query resolves to when the install runs, for a
\* module root and for a package inside the module alike.
goInstall(s, st, dest, version, net, gen) ==
  LET path  == modulePath(s.Package)
      built == GoProxyVersion(version, gen)
  IN
  IF ~net \/ path \notin { GoModule, GoSubPackage } \/ built = << >>
  THEN [ok |-> FALSE, store |-> st]
  ELSE [ok |-> TRUE,
        store |-> Installed(st, dest, (<< <<"b","i","n">>, <<"t","o","o","l">> >> :> built))]

\* GoSource.Fetch
GoFetch(s, st, net, diskOK, gen) ==
  LET version == goResolveConcreteVersion(s, net, gen)
      segs    == goGetStoreSegments(s, version)
      cached  == Exists(st, segs)
      inst    == IF cached THEN [ok |-> TRUE, store |-> st]
                 ELSE goInstall(s, EnsureDir(st, segs), Path(segs), version, net, gen)
      ops     == IF cached THEN << "go-list" >> ELSE << "go-list", "go-install" >>
      wr      == writeMCPConfig(inst.store, s.MCPConfig, segs, diskOK)
  IN
  IF ~inst.ok
  THEN Outcome(Remove(inst.store, segs), "install", NoResolved, segs, ops)
  ELSE IF ~wr.ok THEN Outcome(wr.store, "write", NoResolved, segs, ops)
  ELSE HashAndReturn(wr.store, segs, ops)

(***************************************************************************)
(* OCISource (pkg/source/oci.go) and the container engine it drives.       *)
(***************************************************************************)

\* The image ID the registry serves for the image reference.
RegistryImageID(image, gen) ==
  IF image = <<"i","m","g",":","l","a","t","e","s","t">>
  THEN (IF gen = 1 THEN <<"s","h","a","2","5","6",":","d","1">> ELSE <<"s","h","a","2","5","6",":","d","2">>)
  ELSE << >>

\* Engine.Pull without the look at the local images: `pull` every time.
EnginePullAlways(image, local, net, ctxLive, gen) ==
  IF ~ctxLive \/ ~net \/ RegistryImageID(image, gen) = << >>
  THEN [ok |-> FALSE, local |-> local, ops |-> << "pull" >>]
  ELSE [ok |-> TRUE, local |-> RegistryImageID(image, gen), ops |-> << "pull" >>]

\* Engine.Pull: nothing when `image inspect` finds the image locally, else
\* `pull`.  local is the ID of the image held locally (<< >> for none); a
\* cancelled context fails every command.  [ok, local, ops]
EnginePull(image, local, net, ctxLive, gen) ==
  IF ctxLive /\ local # << >>
  THEN [ok |-> TRUE, local |-> local, ops |-> << "image-inspect" >>]
  ELSE IF ~ctxLive \/ ~net \/ RegistryImageID(image, gen) = << >>
  THEN [ok |-> FALSE, local |-> local, ops |-> << "image-inspect", "pull" >>]
  ELSE [ok |-> TRUE, local |-> RegistryImageID(image, gen),
        ops |-> << "image-inspect", "pull" >>]

\* Engine.ImageDigest: the local image's ID without its "sha256:" prefix.
ImageDigest(local) == TrimPrefix(local, <<"s","h","a","2","5","6",":">>)

\* The stamping with the default path written over the path of the config.
StampDefaultPath(cfg, digest) ==
  IF cfg.Container THEN [cfg EXCEPT !.Digest = digest, !.Path = <<"/","m","c","p">>] ELSE cfg

\* The digest and the default path OCISource.Fetch stamps into its config.
Stamp(cfg, digest) ==
  IF cfg.Container
  THEN [cfg EXCEPT !.Digest = digest,
                   !.Path = IF @ = << >> THEN <<"/","m","c","p">> ELSE @]
  ELSE cfg

ociSegments(s, digest) == << <<"o","c","i">>, s.Name, digest >>

\* OCISource.Fetch.  engine is whether DetectEngine finds docker or podman;
\* the outcome also carries the local image afterwards and the stamped
\* config.
OCIFetch(s, st, local, engine, net, ctxLive, diskOK, gen) ==
  LET pull   == EnginePull(s.MCPConfig.Image, local, net, ctxLive, gen)
      digest == ImageDigest(pull.local)
      cfg    == Stamp(s.MCPConfig, digest)
      segs   == ociSegments(s, digest)
      made   == IF Exists(st, segs) THEN st ELSE EnsureDir(st, segs)
      wr     == writeMCPConfig(made, cfg, segs, diskOK)
      ops    == pull.ops \o << "image-inspect" >>
      with(o, img, c) == [local |-> img, cfg |-> c] @@ o
  IN
  IF ~engine
  THEN with(Outcome(st, "engine", NoResolved, << >>, << >>), local, s.MCPConfig)
  ELSE IF ~pull.ok
  THEN with(Outcome(st, "pull", NoResolved, << >>, pull.ops), pull.local, s.MCPConfig)
  ELSE IF ~wr.ok
  THEN with(Outcome(wr.store, "write", NoResolved, segs, ops), pull.local, cfg)
  ELSE with(HashAndReturn(wr.store, segs, ops), pull.local, cfg)

(***************************************************************************)
(* StaticSource and LocalSource.                                           *)
(***************************************************************************)

\* Segments of a static source by its name alone, without the hash of the
\* marshaled config.
storeSegmentsByName(s, marshaledConfig) == << <<"s","t","a","t","i","c">>, s.Name, <<"c","u","r","r","e","n","t">> >>

\* StaticSource.storeSegments
storeSegments(s, marshaledConfig) ==
  << <<"s","t","a","t","i","c">>, s.Name, Sha256Hex(marshaledConfig) >>

\* StaticSource.Fetch
StaticFetch(s, st, diskOK) ==
  LET data == Marshal(s.MCPConfig)
      segs == storeSegments(s, data)
      made == EnsureDir(st, segs)
      mcp  == segs \o << McpFileName >>
  IN
  IF Exists(st, segs) THEN HashAndReturn(st, segs, << >>)
  ELSE IF ~(diskOK /\ CanWrite(made, Path(mcp)))
  THEN Outcome(Remove(made, segs), "write", NoResolved, segs, << >>)
  ELSE HashAndReturn(WriteFile(made, data, mcp), segs, << >>)

\* The caller's file system, outside the store: what os.Stat finds at an
\* absolute path.
WorkDir == <<"/","w","o","r","k">>
LocalKind(abs) ==
  IF abs = <<"/","w","o","r","k","/","s","k","i","l","l">> THEN "dir"
  ELSE IF abs = <<"/","w","o","r","k","/","n","o","t","e","s",".","t","x","t">> THEN "file"
  ELSE "missing"

\* filepath.Abs: an absolute path cleaned, a relative one joined to the
\* working directory and cleaned.
Abs(path) ==
  LET raw == IF HasPrefix(path, Slash) THEN path ELSE WorkDir \o Slash \o path
  IN  Slash \o Join(CleanParts(Split(raw, Slash), << >>), Slash)

\* LocalSource.Fetch that keeps an entry for the directory in the store and
\* hashes it, as the other variants do.
LocalFetchStored(l, st) ==
  IF LocalKind(Abs(l.Path)) # "dir"
  THEN Outcome(st, "notdir", NoResolved, << >>, << >>)
  ELSE Outcome(EnsureDir(st, << <<"l","o","c","a","l">>, <<"s","k","i","l","l">> >>), "",
               [NoResolved EXCEPT !.Dir = Abs(l.Path),
                                  !.Integrity = HashDir(st, << <<"l","o","c","a","l">>, <<"s","k","i","l","l">> >>)],
               << >>, << >>)

\* LocalSource.Fetch
LocalFetch(l, st) ==
  IF LocalKind(Abs(l.Path)) = "missing"
  THEN Outcome(st, "notexist", NoResolved, << >>, << >>)
  ELSE IF LocalKind(Abs(l.Path)) # "dir"
  THEN Outcome(st, "notdir", NoResolved, << >>, << >>)
  ELSE Outcome(st, "", [NoResolved EXCEPT !.Dir = Abs(l.Path)], << >>, << >>)

(***************************************************************************)
(* Sequential use of one store: Fetch calls of every source variant, one   *)
(* after the other, while the world outside moves on.                      *)
(***************************************************************************)

VARIABLES
  store,       \* the store's directory tree
  gen,         \* the outside world: 1 as first seen, 2 once branches, "latest"
               \* versions and image tags have moved
  localImage,  \* the ID of the image the container engine holds, << >> if none
  calls,       \* the Fetch calls so far, each with its input and its result
  kept,        \* for every successful Fetch, its segments and the content
               \* (all but the mcp.toml descriptor) the entry held on return
  procs,       \* concurrent Fetch calls: each one's input, position and locals
  lock,        \* the lockfile the last successful InstallAll returned
  manifest,    \* the skills of apkg.toml
  runs,        \* the InstallAll runs so far
  refCase,     \* the ref resolution last computed on its own
  probe        \* the store or parsing function last applied on its own

vars == << store, gen, localImage, calls, kept, procs, lock, manifest, runs, refCase, probe >>

MaxCalls == 2

\* A source of any variant; the fields a variant does not have are empty.
NoConfig == MCPSource(<< >>, << >>, << >>, << >>, << >>, << >>)
Src(kind, url, path, ref, package, name, cfg) ==
  [kind |-> kind, URL |-> url, Path |-> path, Ref |-> ref,
   Package |-> package, Name |-> name, MCPConfig |-> cfg]

Scheme == [npm |-> <<"n","p","m">>, uv |-> <<"u","v">>, go |-> <<"g","o">>]

Git(url, path, ref) == Src("git", url, path, ref, << >>, << >>, NoConfig)
Managed(kind, package, env) ==
  Src(kind, << >>, << >>, << >>, package, << >>,
      MCPSource(<<"s","t","d","i","o">>, <<"s","r","v">>, Scheme[kind] \o <<":">> \o package, << >>, << >>, env))
Oci(name, image, env) ==
  Src("oci", << >>, << >>, << >>, << >>, name,
      MCPSource(<<"h","t","t","p">>, name, << >>, image, << >>, env))
Static(name, command) ==
  Src("static", << >>, << >>, << >>, << >>, name,
      MCPSource(<<"s","t","d","i","o">>, name, << >>, << >>, command, << >>))
Local(path) == Src("local", << >>, path, << >>, << >>, << >>, NoConfig)

\* The calls each variant is tried with: a source and what goes wrong around
\* the call ("none", or the network is down, the file system refuses the
\* descriptor, no container engine is installed, the context of the call is
\* already cancelled).
GitCases ==
  { Git(RepoURL, <<"s","k","i","l","l","s","/","p","d","f">>, <<"m","a","i","n">>),
    Git(RepoURL, <<"s","k","i","l","l","s","/","p","d","f">>, CommitA),
    Git(RepoURL, <<"n","o","p","e">>, <<"m","a","i","n">>) } \X { "none", "net" }
  \cup ({ Git(RepoURL, <<"s","k","i","l","l","s","/","p","d","f">>, <<"m","a","i","n">>),
          Git(RepoURL, <<"s","k","i","l","l","s","/","p","d","f">>, CommitA) } \X { "cancel" })
NPMCases ==
  ({ Managed("npm", <<"i","s","-","n","u","m","b","e","r">>, << >>),
     Managed("npm", <<"i","s","-","n","u","m","b","e","r">>, <<"x">>) } \X { "none", "net", "disk" })
  \cup ({ Managed("npm", <<"@","s","/","p","@","^","1">>, << >>),
          Managed("npm", <<"i","s","-","n","u","m","b","e","r","@","7",".","0",".","0">>, << >>) } \X { "none" })
  \cup ({ Managed("npm", <<"i","s","-","n","u","m","b","e","r">>, << >>) } \X { "cancel" })
UVCases ==
  ({ Managed("uv", <<"m","c","p","-","s","e","r","v","e","r","-","g","i","t","=","=","2","0","2","6",".","1",".","1","4">>, << >>),
     Managed("uv", <<"m","c","p","-","s","e","r","v","e","r","-","g","i","t","=","=","2","0","2","6",".","1",".","1","4">>, <<"x">>) } \X { "none", "net", "disk" })
  \cup ({ Managed("uv", <<"m","c","p","-","s","e","r","v","e","r","-","g","i","t">>, << >>),
          Managed("uv", <<"m","c","p","-","s","e","r","v","e","r","-","g","i","t","=","=","9",".","9">>, << >>) } \X { "none" })
  \cup ({ Managed("uv", <<"m","c","p","-","s","e","r","v","e","r","-","g","i","t","=","=","2","0","2","6",".","1",".","1","4">>, << >>) } \X { "cancel" })
GoCases ==
  ({ Managed("go", <<"e","x","a","m","p","l","e",".","c","o","m","/","m">>, << >>),
     Managed("go", <<"e","x","a","m","p","l","e",".","c","o","m","/","m">>, <<"x">>) } \X { "none", "net", "disk" })
  \cup ({ Managed("go", <<"e","x","a","m","p","l","e",".","c","o","m","/","m","/","c","m","d","/","t","o","o","l">>, << >>) } \X { "none", "net" })
  \cup ({ Managed("go", <<"e","x","a","m","p","l","e",".","c","o","m","/","m","@","v","1",".","2",".","0">>, << >>) } \X { "none", "cancel" })
OCICases ==
  ({ Oci(<<"s","r","v">>, <<"i","m","g",":","l","a","t","e","s","t">>, << >>),
     Oci(<<"s","r","v">>, <<"i","m","g",":","l","a","t","e","s","t">>, <<"x">>) } \X { "none", "net", "disk" })
  \cup ({ Oci(<<"s","r","v">>, <<"i","m","g",":","l","a","t","e","s","t">>, << >>) } \X { "engine", "cancel" })
StaticCases ==
  ({ Static(<<"e","c","h","o">>, <<"/","u","s","r","/","b","i","n","/","e","c","h","o">>) } \X { "none", "disk" })
  \cup ({ Static(<<"e","c","h","o">>, <<"/","u","s","r","/","l","o","c","a","l","/","b","i","n","/","o","t","h","e","r">>) } \X { "none" })
LocalCases ==
  { Local(<<".","/","s","k","i","l","l">>), Local(<<"/","w","o","r","k","/","s","k","i","l","l">>), Local(<<".","/","m","i","s","s","i","n","g">>),
    Local(<<".","/","n","o","t","e","s",".","t","x","t">>) } \X { "none" }

Net(fault) == fault # "net"
Live(fault) == fault # "cancel"
Disk(fault) == fault # "disk"
Engine(fault) == fault # "engine"

\* A subprocess started with the call's context that needs the network runs
\* to its end when the network is up and the context is not cancelled.
Runs(fault) == Net(fault) /\ Live(fault)

Remote(fault, g) == [up |-> Net(fault), main |-> IF g = 1 THEN CommitA ELSE CommitB]

\* The content of the entry at segs, the mcp.toml descriptor aside.
Content(st, segs) ==
  [f \in FilesUnder(st, Path(segs)) \ { Path(segs \o << McpFileName >>) } |-> st.files[f]]

\* The record of a finished call.
Call(src, fault, o, cfg) ==
  [src |-> src, fault |-> fault, gen |-> gen, empty |-> store = EmptyStore,
   cached |-> o.segs # << >> /\ Exists(store, o.segs),
   err |-> o.err, res |-> o.res, segs |-> o.segs, ops |-> o.ops, cfg |-> cfg]

\* A finished call: the store it leaves, its record, the content it vouches for.
Finish(src, fault, o, cfg) ==
  /\ store' = o.store
  /\ calls' = Append(calls, Call(src, fault, o, cfg))
  /\ kept' = IF o.err = "" /\ o.segs # << >>
             THEN kept \cup { [segs |-> o.segs, files |-> Content(o.store, o.segs)] }
             ELSE kept
  /\ UNCHANGED << gen, procs, lock, manifest, runs, refCase, probe >>

FetchGit ==
  /\ Len(calls) < MaxCalls
  /\ \E c \in GitCases :
       /\ Finish(c[1], c[2],
                 GitFetch(c[1], store, Remote(c[2], gen), Live(c[2])), c[1].MCPConfig)
       /\ UNCHANGED localImage

FetchNPM ==
  /\ Len(calls) < MaxCalls
  /\ \E c \in NPMCases :
       /\ Finish(c[1], c[2],
                 NPMFetch(c[1], store, Runs(c[2]), Disk(c[2]), gen), c[1].MCPConfig)
       /\ UNCHANGED localImage

FetchUV ==
  /\ Len(calls) < MaxCalls
  /\ \E c \in UVCases :
       /\ Finish(c[1], c[2],
                 UVFetch(c[1], store, Runs(c[2]), Disk(c[2]), gen), c[1].MCPConfig)
       /\ UNCHANGED localImage

FetchGo ==
  /\ Len(calls) < MaxCalls
  /\ \E c \in GoCases :
       /\ Finish(c[1], c[2],
                 GoFetch(c[1], store, Runs(c[2]), Disk(c[2]), gen), c[1].MCPConfig)
       /\ UNCHANGED localImage

FetchOCI ==
  /\ Len(calls) < MaxCalls
  /\ \E c \in OCICases :
       LET o == OCIFetch(c[1], store, localImage, Engine(c[2]), Net(c[2]),
                         Live(c[2]), Disk(c[2]), gen)
       IN  /\ Finish(c[1], c[2], o, o.cfg)
           /\ localImage' = o.local

FetchStatic ==
  /\ Len(calls) < MaxCalls
  /\ \E c \in StaticCases :
       /\ Finish(c[1], c[2], StaticFetch(c[1], store, Disk(c[2])), c[1].MCPConfig)
       /\ UNCHANGED localImage

FetchLocal ==
  /\ Len(calls) < MaxCalls
  /\ \E c \in LocalCases :
       /\ Finish(c[1], c[2], LocalFetch(c[1], store), c[1].MCPConfig)
       /\ UNCHANGED localImage

\* Between two calls the outside world moves on: the branch gets a commit,
\* new versions are published, the image tag is pushed again.
Upstream ==
  /\ gen = 1
  /\ Len(calls) \in 1..(MaxCalls - 1)
  /\ gen' = 2
  /\ UNCHANGED << store, localImage, calls, kept, procs, lock, manifest, runs, refCase, probe >>

Init ==
  /\ store = EmptyStore
  /\ gen = 1
  /\ localImage = << >>
  /\ calls = << >>
  /\ kept = {}
  /\ procs = << >>
  /\ lock = << >>
  /\ manifest = << >>
  /\ runs = << >>
  /\ refCase = << >>
  /\ probe = << >>

Next ==
  \/ FetchGit
  \/ FetchNPM
  \/ FetchUV
  \/ FetchGo
  \/ FetchOCI
  \/ FetchStatic
  \/ FetchLocal
  \/ Upstream

Spec == Init /\ [][Next]_vars

(***************************************************************************)
(* Properties of sequential Fetch calls.                                   *)
(***************************************************************************)

\* Calls i and i+1 have the same input and the same surroundings, and call i
\* started on an empty store.
SameInputTwice(i) ==
  /\ calls[i].empty
  /\ calls[i + 1].src = calls[i].src
  /\ calls[i + 1].fault = calls[i].fault
  /\ calls[i + 1].gen = calls[i].gen

\* C1: a Fetch on an empty store that succeeds, repeated with the same input
\* and nothing changed outside, succeeds again and returns the same Dir and
\* the same Integrity, whatever the source variant.
FetchTwiceSame ==
  \A i \in 1..(Len(calls) - 1) :
    (SameInputTwice(i) /\ calls[i].err = "")
      => /\ calls[i + 1].err = ""
         /\ calls[i + 1].res.Dir = calls[i].res.Dir
         /\ calls[i + 1].res.Integrity = calls[i].res.Integrity

\* A git clone made by the first call and found cached by the second.
FetchTwiceSameWitness ==
  \E i \in 1..(Len(calls) - 1) :
    /\ SameInputTwice(i)
    /\ calls[i].src.kind = "git"
    /\ calls[i].err = ""
    /\ calls[i + 1].cached
    /\ calls[i + 1].res.Integrity # << >>

\* The last call, once there is one.
LastCall == calls[Len(calls)]

\* The entry a failed call leaves behind lacks what every successful Fetch of
\* that variant puts there: the descriptor of an MCP package, the HEAD of a
\* git clone.
HalfPopulated(st, c) ==
  /\ Exists(st, c.segs)
  /\ IF c.src.kind = "git"
     THEN ~IsFile(st, Path(c.segs \o << <<".","g","i","t">>, <<"H","E","A","D">> >>))
     ELSE ~IsFile(st, Path(c.segs \o << McpFileName >>))

\* C2: a Fetch that finds no entry at its cache segments and returns an error
\* leaves no half-populated entry there for a later Fetch to take as cached.
NoHalfPopulatedEntry ==
  (calls # << >> /\ LastCall.err # "" /\ LastCall.segs # << >> /\ ~LastCall.cached)
    => ~HalfPopulated(store, LastCall)

\* C3: the content a successful Fetch returned for its cache segments, the
\* mcp.toml descriptor aside, stays as it is through every later Fetch.
KeptContentUnchanged ==
  \A k \in kept : Content(store, k.segs) = k.files

\* An entry with content was returned by one call, and the next call, on the
\* same segments, failed.
KeptContentUnchangedWitness ==
  /\ Len(calls) >= 2
  /\ LastCall.err # ""
  /\ LastCall.segs = calls[Len(calls) - 1].segs
  /\ \E k \in kept : k.segs = LastCall.segs /\ DOMAIN k.files # {}

\* C5: after a successful Fetch of an npm, uv, Go-module or OCI source, cached
\* or not, the entry's mcp.toml is the marshaled config of that call.
DescriptorOfLatestCall ==
  (calls # << >> /\ LastCall.err = "" /\ LastCall.src.kind \in { "npm", "uv", "go", "oci" })
    => /\ IsFile(store, Path(LastCall.segs \o << McpFileName >>))
       /\ store.files[Path(LastCall.segs \o << McpFileName >>)] = Marshal(LastCall.cfg)


\* The subprocesses that put content into the store, and the ones that only
\* resolve a ref, a version or a digest.
MaterializeOps ==
  { "clone", "init", "remote-add", "fetch", "checkout",
    "npm-install", "uv-venv", "uv-pip-install", "go-install" }
ResolutionOps == { "ls-remote", "npm-view", "go-list", "pull", "image-inspect" }

\* The subprocesses of a call: its operations but the HTTP request to PyPI.
Subprocesses(c) == { c.ops[k] : k \in DOMAIN c.ops } \ { "pypi-get" }

\* The source names one version: a full commit hash, or a package with an
\* exact version.
PinnedSpec(src) ==
  \/ src.kind = "git" /\ isCommitHash(src.Ref)
  \/ src.kind = "npm" /\ src.Package = <<"i","s","-","n","u","m","b","e","r","@","7",".","0",".","0">>
  \/ src.kind = "uv" /\ Index(src.Package, <<"=","=">>) >= 0
  \/ src.kind = "go" /\ src.Package = <<"e","x","a","m","p","l","e",".","c","o","m","/","m","@","v","1",".","2",".","0">>

\* C12: the second of two Fetch calls with the same input, after a
\* successful first one, starts no clone or install subprocess, no subprocess
\* but those of version resolution, and none at all for a pinned version.
SecondFetchNoSubprocess ==
  \A i \in 1..(Len(calls) - 1) :
    (SameInputTwice(i) /\ calls[i].err = "")
      => /\ Subprocesses(calls[i + 1]) \cap MaterializeOps = {}
         /\ Subprocesses(calls[i + 1]) \subseteq ResolutionOps
         /\ PinnedSpec(calls[i].src) => Subprocesses(calls[i + 1]) = {}

\* C13: a Fetch whose context is cancelled and that starts a subprocess
\* returns an error and no ResolvedSource, and leaves no entry at cache
\* segments that had none before the call.
CancelledFetchFails ==
  (calls # << >> /\ LastCall.fault = "cancel" /\ LastCall.ops # << >>)
    => /\ LastCall.err # ""
       /\ LastCall.res = NoResolved
       /\ (LastCall.segs # << >> /\ ~LastCall.cached) => ~Exists(store, LastCall.segs)

\* Calls i and j are Fetch calls of static sources with one logical name.
StaticPair(i, j) ==
  /\ i # j
  /\ calls[i].src.kind = "static"
  /\ calls[j].src.kind = "static"
  /\ calls[i].src.Name = calls[j].src.Name

\* The descriptor of call i's entry is in the store as call i wrote it.
StaticEntryIntact(i) ==
  /\ IsFile(store, Path(calls[i].segs \o << McpFileName >>))
  /\ store.files[Path(calls[i].segs \o << McpFileName >>)] = Marshal(calls[i].cfg)

\* C15: two static sources of one name with different configurations get
\* different Dirs, neither inside the other, and the entry a successful
\* Fetch of one made stays as it is through the Fetch of the other, failed
\* or not; with the same marshaled configuration they get the same Dir.
StaticEntriesApart ==
  \A i, j \in DOMAIN calls :
    (StaticPair(i, j) /\ calls[i].err = "")
      => /\ Marshal(calls[i].cfg) # Marshal(calls[j].cfg)
              => /\ StaticEntryIntact(i)
                 /\ calls[j].err = ""
                      => /\ calls[j].res.Dir # calls[i].res.Dir
                         /\ ~IsPrefix(calls[i].segs, calls[j].segs)
                         /\ ~IsPrefix(calls[j].segs, calls[i].segs)
         /\ (Marshal(calls[i].cfg) = Marshal(calls[j].cfg) /\ calls[j].err = "")
              => calls[j].res.Dir = calls[i].res.Dir

\* Two successful Fetch calls of static sources named alike with different
\* commands.
StaticEntriesApartWitness ==
  \E i, j \in DOMAIN calls :
    /\ StaticPair(i, j)
    /\ calls[i].err = ""
    /\ calls[j].err = ""
    /\ calls[i].cfg.Command # calls[j].cfg.Command
    /\ StaticEntryIntact(i)
    /\ StaticEntryIntact(j)

\* The concrete versions the registries of the model publish.
PublishedVersions ==
  [npm |-> { <<"7",".","0",".","0">>, <<"7",".","0",".","1">>, <<"1",".","0",".","0">>, <<"1",".","1",".","0">>, <<"1",".","2",".","0">> },
   uv  |-> { <<"2","0","2","6",".","1",".","1","4">>, <<"2","0","2","6",".","2",".","1">> },
   go  |-> { <<"v","1",".","2",".","0">>, <<"v","1",".","3",".","0">> }]

\* C17: the entry a Fetch of an npm, uv or Go source returns is keyed by a
\* concrete published version: the last of its cache segments is never an
\* expression of the package spec such as "latest" or a range.
ManagedKeyConcrete ==
  \A i \in DOMAIN calls :
    (calls[i].src.kind \in { "npm", "uv", "go" } /\ calls[i].err = "")
      => calls[i].segs[Len(calls[i].segs)] \in PublishedVersions[calls[i].src.kind]

\* What is at the local paths of the model: the absolute path of each and
\* whether it is a directory, a regular file or missing.
LocalTruth ==
  { [path |-> <<".","/","s","k","i","l","l">>,     abs |-> <<"/","w","o","r","k","/","s","k","i","l","l">>,     kind |-> "dir"],
    [path |-> <<"/","w","o","r","k","/","s","k","i","l","l">>, abs |-> <<"/","w","o","r","k","/","s","k","i","l","l">>,     kind |-> "dir"],
    [path |-> <<".","/","n","o","t","e","s",".","t","x","t">>, abs |-> <<"/","w","o","r","k","/","n","o","t","e","s",".","t","x","t">>, kind |-> "file"],
    [path |-> <<".","/","m","i","s","s","i","n","g">>,   abs |-> <<"/","w","o","r","k","/","m","i","s","s","i","n","g">>,   kind |-> "missing"] }

\* C18: a Fetch of a local source leaves the store as it is; for a directory
\* it returns the absolute path as Dir with empty Commit, Ref and Integrity,
\* and for a missing path or a path that is no directory an error and no
\* ResolvedSource.
LocalFetchFrame ==
  [][(Len(calls') = Len(calls) + 1 /\ calls'[Len(calls')].src.kind = "local")
       => LET c == calls'[Len(calls')]
              t == CHOOSE t \in LocalTruth : t.path = c.src.Path
          IN  /\ store' = store
              /\ kept' = kept
              /\ t.kind = "dir" =>
                    /\ c.err = ""
                    /\ c.res = [Dir |-> t.abs, Commit |-> << >>, Ref |-> << >>,
                                Integrity |-> << >>]
              /\ t.kind # "dir" => c.err # "" /\ c.res = NoResolved]_vars

\* A local directory fetched while the store holds entries.
LocalFetchFrameWitness ==
  /\ calls # << >>
  /\ LastCall.src.kind = "local"
  /\ LastCall.err = ""
  /\ LastCall.res.Dir = <<"/","w","o","r","k","/","s","k","i","l","l">>
  /\ LastCall.res.Integrity = << >>
  /\ store # EmptyStore
(***************************************************************************)
(* Concurrent Fetch calls on one store.  The store holds no lock, so the   *)
(* file-system operations of the calls interleave: each action below is    *)
(* one such operation of one call.  os.RemoveAll deletes file by file and  *)
(* store.HashDir first walks the tree and then reads the files it found.   *)
(***************************************************************************)

NProcs == 2

\* The calls that run side by side: a source, and whether the network drops
\* after the call has resolved its version ("drop").
ConcCases ==
  ({ Git(RepoURL, <<"s","k","i","l","l","s","/","p","d","f">>, <<"m","a","i","n">>),
     Git(RepoURL, <<"s","k","i","l","l","s","/","p","d","f">>, CommitA) } \X { "none" })
  \cup ({ Managed("npm", <<"i","s","-","n","u","m","b","e","r">>, << >>) } \X { "none", "drop" })

\* A call that has not taken its first step.
Started(c) ==
  [src |-> c[1], fault |-> c[2], pc |-> "resolve", key |-> << >>, segs |-> << >>,
   sawMiss |-> FALSE, listed |-> {}, err |-> "", res |-> NoResolved, intact |-> FALSE]

\* What the call would return had it the store to itself.
Solo(pr) ==
  IF pr.src.kind = "git"
  THEN GitFetch(pr.src, EmptyStore, Remote("none", 1), TRUE)
  ELSE NPMFetch(pr.src, EmptyStore, TRUE, TRUE, 1)

\* The location the call hashes and returns as Dir.
Target(pr) == IF pr.src.kind = "git" THEN contentSegs(pr.src, pr.segs) ELSE pr.segs

\* The files at or below a location, with their bytes.
Tree(st, segs) == [f \in FilesUnder(st, Path(segs)) |-> st.files[f]]

Others == << gen, localImage, calls, kept, lock, manifest, runs, refCase, probe >>

\* Steps 1 and 2 of Fetch: the commit or version, and the cache segments.
ConcResolve(p) ==
  /\ procs[p].pc = "resolve"
  /\ LET pr == procs[p]
         rr == IF pr.src.kind = "git"
               THEN resolveRef(pr.src, Remote("none", gen), TRUE)
               ELSE [commit |-> npmResolveConcreteVersion(pr.src, TRUE, 1).version,
                     err    |-> npmResolveConcreteVersion(pr.src, TRUE, 1).err]
     IN procs' = [procs EXCEPT ![p] =
          IF rr.err # "" THEN [pr EXCEPT !.pc = "done", !.err = rr.err]
          ELSE [pr EXCEPT !.pc = "exists", !.key = rr.commit,
                          !.segs = IF pr.src.kind = "git"
                                   THEN repoSegments(pr.src, rr.commit)
                                   ELSE npmGetStoreSegments(pr.src, rr.commit)]]
  /\ UNCHANGED << store, Others >>

\* Step 3: store.Exists.
ConcExists(p) ==
  /\ procs[p].pc = "exists"
  /\ LET pr == procs[p] IN
     procs' = [procs EXCEPT ![p] =
       IF Exists(store, pr.segs) THEN [pr EXCEPT !.pc = "walk"]
       ELSE [pr EXCEPT !.pc = "prepare", !.sawMiss = TRUE]]
  /\ UNCHANGED << store, Others >>

\* store.EnsureDir: of the parent for a clone, of the entry for npm.
ConcEnsureDir(p) ==
  /\ procs[p].pc = "prepare"
  /\ store' = IF procs[p].src.kind = "git"
              THEN EnsureDir(store, SubSeq(procs[p].segs, 1, Len(procs[p].segs) - 1))
              ELSE EnsureDir(store, procs[p].segs)
  /\ procs' = [procs EXCEPT ![p].pc = "materialize"]
  /\ UNCHANGED Others

\* GitSource.clone; a failure sends the call to its cleanup.
ConcClone(p) ==
  /\ procs[p].pc = "materialize"
  /\ procs[p].src.kind = "git"
  /\ LET pr == procs[p]
         cl == clone(pr.src, store, Path(pr.segs), pr.key, Remote("none", gen), TRUE)
     IN /\ store' = cl.store
        /\ procs' = [procs EXCEPT ![p] =
             IF cl.ok THEN [pr EXCEPT !.pc = "walk"]
             ELSE [pr EXCEPT !.pc = "remove", !.err = "clone"]]
  /\ UNCHANGED Others

\* NPMSource.install; a failure sends the call to its cleanup.
ConcInstall(p) ==
  /\ procs[p].pc = "materialize"
  /\ procs[p].src.kind = "npm"
  /\ LET pr   == procs[p]
         inst == npmInstall(pr.src, store, Path(pr.segs), pr.key, pr.fault # "drop")
     IN /\ store' = inst.store
        /\ procs' = [procs EXCEPT ![p] =
             IF inst.ok THEN [pr EXCEPT !.pc = "write"]
             ELSE [pr EXCEPT !.pc = "remove", !.err = "install"]]
  /\ UNCHANGED Others

\* NPMSource.writeMCPConfig after the install.
ConcWrite(p) ==
  /\ procs[p].pc = "write"
  /\ LET pr == procs[p]
         wr == writeMCPConfig(store, pr.src.MCPConfig, pr.segs, TRUE)
     IN /\ store' = wr.store
        /\ procs' = [procs EXCEPT ![p] =
             IF wr.ok THEN [pr EXCEPT !.pc = "walk"]
             ELSE [pr EXCEPT !.pc = "remove", !.err = "write"]]
  /\ UNCHANGED Others

\* store.Remove, one file of the entry at a time.
ConcRemoveFile(p) ==
  /\ procs[p].pc = "remove"
  /\ \E f \in FilesUnder(store, Path(procs[p].segs)) :
       store' = [store EXCEPT !.files = [g \in DOMAIN @ \ { f } |-> @[g]]]
  /\ UNCHANGED << procs, Others >>

\* store.Remove, the directories once the files are gone; the call returns
\* its error.
ConcRemoveDirs(p) ==
  /\ procs[p].pc = "remove"
  /\ FilesUnder(store, Path(procs[p].segs)) = {}
  /\ store' = Remove(store, procs[p].segs)
  /\ procs' = [procs EXCEPT ![p].pc = "done"]
  /\ UNCHANGED Others

\* store.HashDir, the walk that collects the files.
ConcWalk(p) ==
  /\ procs[p].pc = "walk"
  /\ LET pr == procs[p] IN
     procs' = [procs EXCEPT ![p] =
       IF ~CanHashDir(store, Target(pr)) THEN [pr EXCEPT !.pc = "done", !.err = "hash"]
       ELSE [pr EXCEPT !.pc = "read",
                       !.listed = FilesUnder(store, Path(Target(pr)))]]
  /\ UNCHANGED << store, Others >>

\* store.HashDir, the reads and the digest, and the return of Fetch.
ConcRead(p) ==
  /\ procs[p].pc = "read"
  /\ LET pr   == procs[p]
         seen == [dirs  |-> store.dirs,
                  files |-> [f \in pr.listed \cap DOMAIN store.files |-> store.files[f]]]
     IN procs' = [procs EXCEPT ![p] =
          IF \E f \in pr.listed : ~IsFile(store, f)
          THEN [pr EXCEPT !.pc = "done", !.err = "hash"]
          ELSE [pr EXCEPT !.pc = "done",
                  !.res = [Dir       |-> PathString(Target(pr)),
                           Commit    |-> IF pr.src.kind = "git" THEN pr.key ELSE << >>,
                           Ref       |-> pr.src.Ref,
                           Integrity |-> HashDir(seen, Target(pr))],
                  !.intact = (Tree(store, Target(pr)) = Tree(Solo(pr).store, Target(pr)))]]
  /\ UNCHANGED << store, Others >>

InitConc ==
  /\ store = EmptyStore
  /\ gen = 1
  /\ localImage = << >>
  /\ calls = << >>
  /\ kept = {}
  /\ procs \in [1..NProcs -> { Started(c) : c \in ConcCases }]
  /\ lock = << >>
  /\ manifest = << >>
  /\ runs = << >>
  /\ refCase = << >>
  /\ probe = << >>

NextConc ==
  \E p \in 1..NProcs :
    \/ ConcResolve(p)
    \/ ConcExists(p)
    \/ ConcEnsureDir(p)
    \/ ConcClone(p)
    \/ ConcInstall(p)
    \/ ConcWrite(p)
    \/ ConcRemoveFile(p)
    \/ ConcRemoveDirs(p)
    \/ ConcWalk(p)
    \/ ConcRead(p)

SpecConc == InitConc /\ [][NextConc]_vars

\* Calls p and q meet as the claim has it: same cache segments, both found
\* nothing cached, q's clone or install failed and p returned success.
RacedWithFailure(p, q) ==
  /\ p # q
  /\ procs[p].segs = procs[q].segs
  /\ procs[p].sawMiss /\ procs[q].sawMiss
  /\ procs[q].err \in { "clone", "install" }
  /\ procs[p].pc = "done" /\ procs[p].err = ""

\* C4: a Fetch that returns success next to one whose clone or install failed
\* on the same cache segments returns a Dir that holds the complete content,
\* and the digest of that complete content as Integrity.
ConcurrentSuccessComplete ==
  \A p, q \in 1..NProcs :
    RacedWithFailure(p, q)
      => /\ procs[p].intact
         /\ procs[p].res.Integrity = Solo(procs[p]).res.Integrity


\* C31: a Fetch that found its cache segments present and returned success
\* hashed a completely installed entry: its Dir holds the complete content
\* and its Integrity is the digest of that content, whatever another Fetch
\* was doing on the same segments.
CacheHitSeesComplete ==
  \A p \in 1..NProcs :
    (procs[p].pc = "done" /\ procs[p].err = "" /\ ~procs[p].sawMiss)
      => /\ procs[p].intact
         /\ procs[p].res.Integrity = Solo(procs[p]).res.Integrity
(***************************************************************************)
(* Installer.InstallAll (pkg/installer/installer.go): the skills of the    *)
(* manifest are fetched in name order, each with the commit the lockfile   *)
(* holds for it when its ref is the locked one, and the run returns a new  *)
(* lockfile.  The command saves that lockfile for the next run             *)
(* (pkg/cmd/install.go, runInstallAll).                                    *)
(***************************************************************************)

MaxRuns == 3

\* config.SkillSource
SkillSource(git, path, ref) == [Git |-> git, Path |-> path, Ref |-> ref]

\* config.SkillLockEntry, with the fields lockEntryFromResolved fills; Name,
\* which `apkg remove` reads, is left at its zero value.
SkillLockEntry(git, path, ref, commit, integrity) ==
  [Name |-> << >>, Git |-> git, Path |-> path, Ref |-> ref, Commit |-> commit,
   Integrity |-> integrity]

\* *config.LockFile: nil, or the lockfile InstallAll builds.
NilLock == [nil |-> TRUE, Version |-> 0, Skills |-> << >>]
LockFile(skills) == [nil |-> FALSE, Version |-> 1, Skills |-> skills]

\* SourceFromSkillConfig that leaves the ref of a git source out.
SourceFromSkillConfigNoRef(ss) ==
  IF ss.Git # << >> THEN Git(ss.Git, ss.Path, << >>) ELSE Local(ss.Path)

\* SourceFromSkillConfig
SourceFromSkillConfig(ss) ==
  IF ss.Git # << >> THEN Git(ss.Git, ss.Path, ss.Ref) ELSE Local(ss.Path)

\* lockKey
lockKey(ss) == IF ss.Git # << >> THEN ss.Git \o <<"|">> \o ss.Path ELSE ss.Path

\* lockKeyFromEntry
lockKeyFromEntry(entry) ==
  IF entry.Git # << >> THEN entry.Git \o <<"|">> \o entry.Path ELSE entry.Path

\* buildLockIndex: the loop over the entries, a later entry replacing an
\* earlier one under the same key; a nil lockfile gives a nil map, in which
\* nothing is found.
RECURSIVE indexEntries(_, _, _)
indexEntries(entries, i, idx) ==
  IF i > Len(entries) THEN idx
  ELSE indexEntries(entries, i + 1,
                    (lockKeyFromEntry(entries[i]) :> entries[i]) @@ idx)

buildLockIndex(lf) == IF lf.nil THEN << >> ELSE indexEntries(lf.Skills, 1, << >>)

\* InstallAll's choice of the source without the comparison of the refs.
skillSourceAnyRef(lockIndex, ss) ==
  IF /\ lockKey(ss) \in DOMAIN lockIndex
     /\ lockIndex[lockKey(ss)].Commit # << >>
  THEN SourceFromSkillConfig(SkillSource(ss.Git, ss.Path, lockIndex[lockKey(ss)].Commit))
  ELSE SourceFromSkillConfig(ss)

\* InstallAll's choice of the source to fetch: the skill at its locked commit
\* when the index has an entry with a commit and the manifest's ref.
skillSource(lockIndex, ss) ==
  IF /\ lockKey(ss) \in DOMAIN lockIndex
     /\ lockIndex[lockKey(ss)].Commit # << >>
     /\ lockIndex[lockKey(ss)].Ref = ss.Ref
  THEN SourceFromSkillConfig(SkillSource(ss.Git, ss.Path, lockIndex[lockKey(ss)].Commit))
  ELSE SourceFromSkillConfig(ss)

\* lockEntryFromResolved
lockEntryFromResolved(ss, resolved) ==
  SkillLockEntry(ss.Git, ss.Path, resolved.Ref, resolved.Commit, resolved.Integrity)

\* src.Fetch of the two kinds of skill source.
FetchSkill(src, st, fault, g) ==
  IF src.kind = "git" THEN GitFetch(src, st, Remote(fault, g), TRUE)
  ELSE LocalFetch(src, st)

\* skill.Load opens SKILL.md in the resolved directory.  The local skill
\* directory holds one; Validate accepts the skills of this model.
SkillFileOpens(src, o) ==
  IF src.kind = "git"
  THEN IsFile(o.store, Path(contentSegs(src, o.segs) \o << <<"S","K","I","L","L",".","m","d">> >>))
  ELSE TRUE

\* One pass of InstallAll's loop from the fetch's return on: the fetch error,
\* skill.Load, and the entry appended to the new lockfile.  acc carries the
\* store, the new lockfile's entries and, for each skill tried, what was
\* fetched.
afterFetch(name, ss, src, acc, o) ==
  [store  |-> o.store,
   steps  |-> Append(acc.steps,
                [name |-> name, ss |-> ss, src |-> src,
                 cached |-> o.segs # << >> /\ Exists(acc.store, o.segs),
                 ops |-> o.ops, err |-> o.err]),
   skills |-> IF o.err = "" /\ SkillFileOpens(src, o)
              THEN Append(acc.skills, lockEntryFromResolved(ss, o.res))
              ELSE acc.skills,
   err    |-> IF o.err # "" THEN "fetch"
              ELSE IF ~SkillFileOpens(src, o) THEN "load"
              ELSE ""]

\* One pass of InstallAll's loop: the source chosen, and its Fetch.
fetchChosen(name, ss, src, fault, g, acc) ==
  afterFetch(name, ss, src, acc, FetchSkill(src, acc.store, fault, g))

installSkill(name, ss, lockIndex, fault, g, acc) ==
  fetchChosen(name, ss, skillSource(lockIndex, ss), fault, g, acc)

\* The loop of InstallAll from the i-th name on; the first error ends it.
RECURSIVE installFrom(_, _, _, _, _, _, _)
installFrom(names, i, cfg, lockIndex, fault, g, acc) ==
  IF i > Len(names) \/ acc.err # "" THEN acc
  ELSE installFrom(names, i + 1, cfg, lockIndex, fault, g,
                   installSkill(names[i], cfg[names[i]], lockIndex, fault, g, acc))

\* Installer.InstallAll with no agent to project to.
InstallAll(cfg, existing, st, fault, g) ==
  installFrom(SortStrings(DOMAIN cfg), 1, cfg, buildLockIndex(existing), fault, g,
              [store |-> st, skills |-> << >>, steps |-> << >>, err |-> ""])

\* The manifests: a git skill at a branch, at an annotated tag, and next to a
\* local skill.
PdfAt(ref) == SkillSource(RepoURL, <<"s","k","i","l","l","s","/","p","d","f">>, ref)
Manifests ==
  { (<<"p","d","f">> :> PdfAt(<<"m","a","i","n">>)),
    (<<"p","d","f">> :> PdfAt(<<"v","2",".","0">>)),
    (<<"p","d","f">> :> PdfAt(<<"m","a","i","n">>)) @@ (<<"l","o","c">> :> SkillSource(<< >>, <<".","/","s","k","i","l","l">>, << >>)) }

\* The lockfiles a first run may find: none, one written on another machine,
\* one whose entry has no commit, one with a commit on a local skill's entry,
\* one with two entries under one key.
InitialLocks ==
  { NilLock,
    LockFile(<< SkillLockEntry(RepoURL, <<"s","k","i","l","l","s","/","p","d","f">>, <<"m","a","i","n">>, CommitA, << >>) >>),
    LockFile(<< SkillLockEntry(RepoURL, <<"s","k","i","l","l","s","/","p","d","f">>, <<"m","a","i","n">>, << >>, << >>) >>),
    LockFile(<< SkillLockEntry(<< >>, <<".","/","s","k","i","l","l">>, << >>, CommitA, << >>) >>),
    LockFile(<< SkillLockEntry(RepoURL, <<"s","k","i","l","l","s","/","p","d","f">>, <<"m","a","i","n">>, CommitA, << >>),
                SkillLockEntry(RepoURL, <<"s","k","i","l","l","s","/","p","d","f">>, <<"v","2",".","0">>, CommitB, << >>) >>) }

Untouched == << localImage, calls, kept, procs, refCase, probe >>

\* `apkg install`: InstallAll on the manifest and the saved lockfile; the new
\* lockfile is saved when the run succeeds.  runs counts the runs, and the
\* successful ones in a row on the manifest as it is.
RunInstallAll ==
  /\ runs.n < MaxRuns
  /\ \E fault \in { "none", "net" } :
     \E r \in { InstallAll(manifest, lock, store, fault, gen) } :
       /\ store' = r.store
       /\ lock' = IF r.err = "" THEN LockFile(r.skills) ELSE lock
       /\ runs' = [n      |-> runs.n + 1,
                   streak |-> IF r.err = "" THEN runs.streak + 1 ELSE 0,
                   last   |-> << [fault |-> fault, existing |-> lock, chain |-> runs.streak,
                                  steps |-> r.steps, err |-> r.err] >>]
  /\ UNCHANGED << gen, manifest, Untouched >>

\* The user edits the manifest.
EditManifest ==
  /\ runs.n < MaxRuns
  /\ manifest' \in Manifests \ { manifest }
  /\ runs' = [runs EXCEPT !.streak = 0]
  /\ UNCHANGED << store, gen, lock, Untouched >>

\* The branch gets a new commit.
BranchMoves ==
  /\ gen = 1
  /\ gen' = 2
  /\ UNCHANGED << store, lock, manifest, runs, Untouched >>

\* The user empties the store.
ClearStore ==
  /\ store # EmptyStore
  /\ store' = EmptyStore
  /\ UNCHANGED << gen, lock, manifest, runs, Untouched >>

InitInstall ==
  /\ store = EmptyStore
  /\ gen = 1
  /\ localImage = << >>
  /\ calls = << >>
  /\ kept = {}
  /\ procs = << >>
  /\ lock \in InitialLocks
  /\ manifest \in Manifests
  /\ runs = [n |-> 0, streak |-> 0, last |-> << >>]
  /\ refCase = << >>
  /\ probe = << >>

NextInstall ==
  \/ RunInstallAll
  \/ EditManifest
  \/ BranchMoves
  \/ ClearStore

SpecInstall == InitInstall /\ [][NextInstall]_vars

\* The elements of a sequence.
Range(s) == { s[i] : i \in DOMAIN s }

\* The steps of the last run, and the lockfile it was given.
LastSteps == IF runs.last = << >> THEN << >> ELSE runs.last[1].steps
LastExisting == runs.last[1].existing

\* The entry the lockfile holds for (git URL, sub-path): the last one, when
\* several have that key.
HasEntry(lf, ss) ==
  \E i \in DOMAIN lf.Skills : lf.Skills[i].Git = ss.Git /\ lf.Skills[i].Path = ss.Path
EntryFor(lf, ss) ==
  lf.Skills[CHOOSE i \in DOMAIN lf.Skills :
              /\ lf.Skills[i].Git = ss.Git /\ lf.Skills[i].Path = ss.Path
              /\ \A j \in DOMAIN lf.Skills :
                   (lf.Skills[j].Git = ss.Git /\ lf.Skills[j].Path = ss.Path) => j <= i]

\* The lockfile has the skill at the manifest's ref, with a commit.
LockedAtRef(lf, ss) ==
  /\ HasEntry(lf, ss)
  /\ EntryFor(lf, ss).Ref = ss.Ref
  /\ EntryFor(lf, ss).Commit # << >>

\* C6: in InstallAll a git skill that is locked at the manifest's ref with a
\* commit, and whose clone of that commit is in the store, is fetched with no
\* remote operation and the fetch succeeds, reachable remote or not.
LockedFetchIsLocal ==
  \A i \in DOMAIN LastSteps :
    (/\ LastSteps[i].ss.Git # << >>
     /\ LockedAtRef(LastExisting, LastSteps[i].ss)
     /\ LastSteps[i].cached)
      => LastSteps[i].ops = << >> /\ LastSteps[i].err = ""

\* A locked and cached git skill fetched while the remote is unreachable.
LockedFetchIsLocalWitness ==
  /\ runs.last # << >>
  /\ runs.last[1].fault = "net"
  /\ \E i \in DOMAIN LastSteps :
       /\ LastSteps[i].ss.Git # << >>
       /\ LockedAtRef(LastExisting, LastSteps[i].ss)
       /\ LastSteps[i].cached
       /\ LastSteps[i].err = ""

\* Some entry of the lockfile has the skill's (git URL, sub-path), the
\* manifest's ref and a commit.
SomeEntryMatches(lf, ss) ==
  \E i \in DOMAIN lf.Skills :
    /\ lf.Skills[i].Git = ss.Git /\ lf.Skills[i].Path = ss.Path
    /\ lf.Skills[i].Ref = ss.Ref
    /\ lf.Skills[i].Commit # << >>

\* C7: InstallAll fetches a skill at a locked commit only if the lockfile has
\* an entry with the skill's (git URL, sub-path), the manifest's ref and a
\* non-empty commit, and then at that entry's commit; otherwise it fetches
\* the manifest's own source, a branch or tag through ls-remote; and a skill
\* with no git URL is fetched as a local path.
SubstitutesOnlyWhenLocked ==
  \A i \in DOMAIN LastSteps :
    LET s == LastSteps[i] IN
    /\ s.src.Ref # s.ss.Ref =>
         /\ SomeEntryMatches(LastExisting, s.ss)
         /\ \E j \in DOMAIN LastExisting.Skills :
              /\ LastExisting.Skills[j].Git = s.ss.Git
              /\ LastExisting.Skills[j].Path = s.ss.Path
              /\ LastExisting.Skills[j].Ref = s.ss.Ref
              /\ LastExisting.Skills[j].Commit = s.src.Ref
    /\ ~SomeEntryMatches(LastExisting, s.ss) =>
         /\ s.src = SourceFromSkillConfig(s.ss)
         /\ (s.src.kind = "git" /\ ~isCommitHash(s.ss.Ref)) => "ls-remote" \in Range(s.ops)
    /\ s.ss.Git = << >> => s.src.kind = "local" /\ s.ops = << >>

\* A skill whose lock entry has a commit under another ref than the
\* manifest's, fetched at the manifest's ref.
SubstitutesOnlyWhenLockedWitness ==
  \E i \in DOMAIN LastSteps :
    /\ HasEntry(LastExisting, LastSteps[i].ss)
    /\ EntryFor(LastExisting, LastSteps[i].ss).Commit # << >>
    /\ EntryFor(LastExisting, LastSteps[i].ss).Ref # LastSteps[i].ss.Ref
    /\ LastSteps[i].src.Ref = LastSteps[i].ss.Ref
    /\ "ls-remote" \in Range(LastSteps[i].ops)

\* C8: a run that follows one or more successful runs on the same manifest,
\* with the lockfile the run before it returned, fetches every git skill at a
\* branch or tag at its locked commit and without ls-remote.
RepeatedRunsStayLocal ==
  (runs.last # << >> /\ runs.last[1].chain >= 1)
    => \A i \in DOMAIN LastSteps :
         (LastSteps[i].ss.Git # << >> /\ ~isHexString(LastSteps[i].ss.Ref))
           => /\ LastSteps[i].src.Ref # LastSteps[i].ss.Ref
              /\ "ls-remote" \notin Range(LastSteps[i].ops)


\* C30: the lock entry a successful run returns for a git skill records the
\* manifest's own ref as Ref and the resolved full commit as Commit, also
\* when the run fetched the skill at its locked commit.
LockEntryKeepsRef ==
  (runs.last # << >> /\ runs.last[1].err = "")
    => \A i \in DOMAIN LastSteps :
         LastSteps[i].ss.Git # << >>
           => /\ lock.Skills[i].Ref = LastSteps[i].ss.Ref
              /\ isCommitHash(lock.Skills[i].Commit)
(***************************************************************************)
(* Ref resolution on its own: resolveRef and repoSegments on every form of *)
(* ref that names one commit, and resolveShortHash on listings of every    *)
(* order.                                                                  *)
(***************************************************************************)

MaxLines == 3

\* The forms of ref that name commit CommitA while the branch is at it: the
\* branch, the lightweight and the annotated tag, the full hash in the cases
\* isCommitHash accepts, and a prefix no other advertised hash has.
RefForms ==
  { <<"m","a","i","n">>, <<"v","1",".","0">>, <<"v","2",".","0">>,
    CommitA, Pad(<<"A","B","C","D","E","F","1","0">>, "0"), Pad(<<"A","b","C","d","E","f","1","0">>, "0"),
    <<"a","b","c","d","e","f","1","0">>, <<"A","B","C","D","E","F","1","0">> }

\* Short refs: one that two hashes start with, one that one hash starts
\* with, in either case, and one that none starts with.
ShortRefs == { <<"a","b","c","d","e","f","1">>, <<"a","b","c","d","e","f","1","0">>, <<"A","B","C","D","E","F","1">>, <<"1","2","3","4","5","6","7">>, <<"f","f","f","f","f","f","f">> }

\* Lines of `git ls-remote <url>`: the fields of each, none for a blank line.
ListedLines ==
  { << CommitA, <<"r","e","f","s","/","h","e","a","d","s","/","m","a","i","n">> >>,
    << CommitA, <<"r","e","f","s","/","t","a","g","s","/","v","1",".","0">> >>,
    << CommitB, <<"r","e","f","s","/","h","e","a","d","s","/","d","e","v">> >>,
    << Pad(<<"1","2","3","4","5","6","7">>, "8"), <<"r","e","f","s","/","h","e","a","d","s","/","x">> >>,
    << >> }

Listings == UNION { [1..n -> ListedLines] : n \in 0..MaxLines }

Unrelated == << store, gen, localImage, calls, kept, procs, lock, manifest, runs, probe >>

\* resolveRef and repoSegments for one form of ref.
ResolveForm ==
  /\ refCase.op = "none"
  /\ \E ref \in RefForms, url \in RepoURLs :
       LET g == Git(url, <<"s","k","i","l","l","s","/","p","d","f">>, ref) IN
       \E rr \in { resolveRef(g, Remote("none", 1), TRUE) } :
         refCase' = [op |-> "ref", ref |-> ref, url |-> url, lines |-> << >>,
                     err |-> rr.err, commit |-> rr.commit,
                     segs |-> IF rr.err = "" THEN repoSegments(g, rr.commit) ELSE << >>]
  /\ UNCHANGED Unrelated

\* resolveShortHash for one short ref and one listing.
ResolveShort ==
  /\ refCase.op = "none"
  /\ \E ref \in ShortRefs, lines \in Listings :
       \E r \in { resolveShortHash(ref, lines) } :
         refCase' = [op |-> "short", ref |-> ref, url |-> RepoURL, lines |-> lines,
                     err |-> r.err, commit |-> r.commit, segs |-> << >>]
  /\ UNCHANGED Unrelated

\* Branch and tag names: an annotated tag, a branch, a name the remote does
\* not have.
NamedRefs == { <<"v","2",".","0">>, <<"m","a","i","n">>, <<"n","o","p","e">> }

\* Lines the remote may advertise for them, and a blank line.
AdvertisedLines ==
  { << TagObj,  <<"r","e","f","s","/","t","a","g","s","/","v","2",".","0">> >>,
    << CommitA, <<"r","e","f","s","/","t","a","g","s","/","v","2",".","0","^","{","}">> >>,
    << CommitB, <<"r","e","f","s","/","h","e","a","d","s","/","v","2",".","0">> >>,
    << CommitA, <<"r","e","f","s","/","h","e","a","d","s","/","m","a","i","n">> >>,
    << >> }

Advertisements == UNION { [1..n -> AdvertisedLines] : n \in 0..MaxLines }

\* resolveRef for a branch or tag name on the lines ls-remote prints for it.
ResolveNamed ==
  /\ refCase.op = "none"
  /\ \E ref \in NamedRefs, all \in Advertisements :
       \E lines \in { SelectSeq(all, LAMBDA l : l = << >> \/ RefMatches(l[2], ref)
                                                \/ RefMatches(l[2], ref \o <<"^","{","}">>)) } :
         \E r \in { resolveNamed(lines) } :
           refCase' = [op |-> "named", ref |-> ref, url |-> RepoURL, lines |-> lines,
                       err |-> r.err, commit |-> r.commit, segs |-> << >>]
  /\ UNCHANGED Unrelated

InitRef ==
  /\ store = EmptyStore
  /\ gen = 1
  /\ localImage = << >>
  /\ calls = << >>
  /\ kept = {}
  /\ procs = << >>
  /\ lock = << >>
  /\ manifest = << >>
  /\ runs = << >>
  /\ probe = << >>
  /\ refCase = [op |-> "none", ref |-> << >>, url |-> << >>, lines |-> << >>,
                err |-> "", commit |-> << >>, segs |-> << >>]

NextRef ==
  \/ ResolveForm
  \/ ResolveShort
  \/ ResolveNamed

SpecRef == InitRef /\ [][NextRef]_vars

\* The distinct hashes of the dereferenced (^{}) lines of the output.
PeeledHashes ==
  { refCase.lines[i][1] :
      i \in { j \in DOMAIN refCase.lines :
                /\ Len(refCase.lines[j]) >= 2
                /\ HasSuffix(refCase.lines[j][2], <<"^","{","}">>) } }

\* The lines of the output that are entries.
EntryLines == { i \in DOMAIN refCase.lines : Len(refCase.lines[i]) >= 2 }

\* C11: for a branch or tag name resolveRef returns the hash of a
\* dereferenced (^{}) line whenever the output of ls-remote has one, in
\* whatever order the lines come, and so never the hash of the tag object;
\* it returns the not-found error exactly when the output has no entry, and
\* otherwise a listed hash.
NamedRefOutcome ==
  refCase.op = "named"
    => /\ PeeledHashes # {} => refCase.err = "" /\ refCase.commit \in PeeledHashes
       /\ refCase.err = "notfound" <=> EntryLines = {}
       /\ refCase.err \in { "", "notfound" }
       /\ refCase.err = "" => \E i \in EntryLines : refCase.commit = refCase.lines[i][1]

\* An annotated tag whose dereferenced line comes before the line of the tag
\* object.
NamedRefOutcomeWitness ==
  /\ refCase.op = "named"
  /\ Len(refCase.lines) >= 2
  /\ refCase.lines[1] = << CommitA, <<"r","e","f","s","/","t","a","g","s","/","v","2",".","0","^","{","}">> >>
  /\ refCase.lines[Len(refCase.lines)] = << TagObj, <<"r","e","f","s","/","t","a","g","s","/","v","2",".","0">> >>
  /\ refCase.commit = CommitA

\* C9: every form of ref that names commit CommitA resolves to the one commit
\* string the branch resolves to, and gives the cache segments of the branch.
AllFormsOneCommit ==
  refCase.op = "ref"
    => /\ refCase.err = ""
       /\ refCase.commit = CommitA
       /\ refCase.segs = repoSegments(Git(refCase.url, <<"s","k","i","l","l","s","/","p","d","f">>, <<"m","a","i","n">>), CommitA)

\* The distinct advertised hashes that start with the short ref, case aside.
MatchingHashes ==
  { ToLower(refCase.lines[i][1]) :
      i \in { j \in DOMAIN refCase.lines :
                /\ Len(refCase.lines[j]) >= 2
                /\ HasPrefix(ToLower(refCase.lines[j][1]), ToLower(refCase.ref)) } }

\* C10: resolveShortHash gives not-found when no advertised hash starts with
\* the ref, ambiguous when two or more distinct ones do, in whatever order
\* they are listed, and the hash when exactly one does, however many refs
\* advertise it.
ShortHashOutcome ==
  refCase.op = "short"
    => /\ MatchingHashes = {} => refCase.err = "notfound"
       /\ Cardinality(MatchingHashes) >= 2 => refCase.err = "ambiguous"
       /\ Cardinality(MatchingHashes) = 1
            => refCase.err = "" /\ refCase.commit \in MatchingHashes

\* Two distinct hashes match, listed with the first one again after the
\* second.
ShortHashOutcomeWitness ==
  /\ refCase.op = "short"
  /\ Len(refCase.lines) = 3
  /\ Cardinality(MatchingHashes) = 2
  /\ refCase.lines[1] = refCase.lines[3]
  /\ refCase.err = "ambiguous"

(***************************************************************************)
(* HashDir on its own: a tree that is built and changed file by file,      *)
(* directory by directory, and hashed in between.                          *)
(***************************************************************************)

\* The directory that is hashed, the files and directories that may appear
\* in the store, and the bytes a file may hold.
HashRoot == << <<"t">> >>
TreeFiles ==
  { << <<"t">>, <<"a",".","b">> >>, << <<"t">>, <<"a">>, <<"b">> >>, << <<"t">>, <<"a">>, <<"c">> >>,
    << <<"t">>, <<"B">> >>, << <<"u">> >> }
TreeDirs == { << <<"t">> >>, << <<"t">>, <<"a">> >>, << <<"t">>, <<"e">> >>, << <<"t">>, <<"e">>, <<"f">> >> }
TreeBytes == { <<"x">>, <<"b","x">> }

NotTree == << gen, localImage, calls, kept, procs, lock, manifest, runs, refCase >>

\* store.EnsureDir on one of the directories.
TreeMkdir ==
  /\ \E d \in TreeDirs : store' = EnsureDir(store, d)
  /\ store' # store
  /\ probe' = [op |-> "none"]
  /\ UNCHANGED NotTree

\* store.WriteFile of one of the files, new or overwritten.
TreeWrite ==
  /\ \E f \in TreeFiles, data \in TreeBytes :
       /\ CanWrite(store, f)
       /\ store' = WriteFile(store, data, f)
  /\ store' # store
  /\ probe' = [op |-> "none"]
  /\ UNCHANGED NotTree

\* store.Remove of one of the files or directories.
TreeRemove ==
  /\ \E l \in (TreeFiles \cup TreeDirs) \ { HashRoot } :
       /\ Exists(store, l)
       /\ store' = Remove(store, l)
  /\ probe' = [op |-> "none"]
  /\ UNCHANGED NotTree

\* store.HashDir on the directory, twice in a row.
TreeHash ==
  /\ probe.op = "none"
  /\ CanHashDir(store, HashRoot)
  /\ probe' = [op |-> "hash", first |-> HashDir(store, HashRoot),
               second |-> HashDir(store, HashRoot)]
  /\ UNCHANGED << store, NotTree >>

InitHash ==
  /\ store = EmptyStore
  /\ gen = 1
  /\ localImage = << >>
  /\ calls = << >>
  /\ kept = {}
  /\ procs = << >>
  /\ lock = << >>
  /\ manifest = << >>
  /\ runs = << >>
  /\ refCase = << >>
  /\ probe = [op |-> "none"]

NextHash ==
  \/ TreeMkdir
  \/ TreeWrite
  \/ TreeRemove
  \/ TreeHash

SpecHash == InitHash /\ [][NextHash]_vars

\* The (relative path, content) pairs of the files under the hashed directory.
TreePairs ==
  { << Rel(HashRoot, f), store.files[f] >> : f \in FilesUnder(store, HashRoot) }

\* The pairs of a set in the lexicographic order of their paths.
PairsInOrder(P) ==
  CHOOSE q \in [1..Cardinality(P) -> P] :
    \A i, j \in 1..Cardinality(P) : i < j => StrLess(q[i][1], q[j][1])

\* "sha256:" and the hex digest of path1 ++ content1 ++ path2 ++ content2 ...
DigestOfPairs(P) ==
  LET q == PairsInOrder(P) IN
  HashPrefix \o Sha256Hex(Concat([i \in 1..Len(q) |-> q[i][1] \o q[i][2]]))

\* C14: HashDir is "sha256:" and the digest of the relative paths and
\* contents of the files under the directory, in the lexicographic order of
\* the paths: a function of the set of (path, content) pairs alone, whatever
\* order the tree was made in and whatever directories it holds, and the same
\* when called again on the unchanged tree.
HashDirOfPairs ==
  probe.op = "hash"
    => /\ probe.first = DigestOfPairs(TreePairs)
       /\ probe.second = probe.first

\* A tree in which the walk meets a/b before a.b while a.b sorts first, with
\* an empty directory in it.
HashDirOfPairsWitness ==
  /\ probe.op = "hash"
  /\ { << <<"t">>, <<"a",".","b">> >>, << <<"t">>, <<"a">>, <<"b">> >> } \subseteq DOMAIN store.files
  /\ << <<"t">>, <<"e">> >> \in store.dirs
  /\ FilesUnder(store, << <<"t">>, <<"e">> >>) = {}
(***************************************************************************)
(* Cache segments on their own: the store path each source variant derives *)
(* from a resolved identity, for two identities at a time.                 *)
(***************************************************************************)

\* Sources as the user may write them, each with the identity it names: the
\* host and the owner/repo components of a git URL, the name parts of a
\* package, the logical name of an image or of a static server.
GitNamed ==
  { [url |-> <<"h","t","t","p","s",":","/","/","g","i","t","h","u","b",".","c","o","m","/","o","/","r",".","g","i","t">>,     name |-> << <<"g","i","t","h","u","b",".","c","o","m">>, <<"o">>, <<"r">> >>],
    [url |-> <<"h","t","t","p","s",":","/","/","g","i","t","h","u","b",".","c","o","m","/","o","/","r">>,         name |-> << <<"g","i","t","h","u","b",".","c","o","m">>, <<"o">>, <<"r">> >>],
    [url |-> <<"g","i","t","@","g","i","t","h","u","b",".","c","o","m",":","o","/","r",".","g","i","t">>,         name |-> << <<"g","i","t","h","u","b",".","c","o","m">>, <<"o">>, <<"r">> >>],
    [url |-> <<"s","s","h",":","/","/","g","i","t","@","g","i","t","h","u","b",".","c","o","m","/","o","/","r",".","g","i","t">>,   name |-> << <<"g","i","t","h","u","b",".","c","o","m">>, <<"o">>, <<"r">> >>],
    [url |-> <<"h","t","t","p","s",":","/","/","g","i","t","l","a","b",".","c","o","m","/","o","/","g","/","r",".","g","i","t">>,   name |-> << <<"g","i","t","l","a","b",".","c","o","m">>, <<"o">>, <<"g">>, <<"r">> >>],
    [url |-> <<"h","t","t","p","s",":","/","/","g","i","t","l","a","b",".","c","o","m","/","o","/","g",".","g","i","t">>,     name |-> << <<"g","i","t","l","a","b",".","c","o","m">>, <<"o">>, <<"g">> >>],
    [url |-> <<"h","t","t","p","s",":","/","/","g","i","t","l","a","b",".","c","o","m","/","o","/","g","/">> \o CommitA \o <<"/","r",".","g","i","t">>,
     name |-> << <<"g","i","t","l","a","b",".","c","o","m">>, <<"o">>, <<"g">>, CommitA, <<"r">> >>] }
NPMNamed ==
  { [package |-> <<"i","s","-","n","u","m","b","e","r">>,       name |-> << <<"i","s","-","n","u","m","b","e","r">> >>],
    [package |-> <<"i","s","-","n","u","m","b","e","r","@","7",".","0",".","0">>, name |-> << <<"i","s","-","n","u","m","b","e","r">> >>],
    [package |-> <<"@","s","/","p","@","^","1">>,         name |-> << <<"@","s">>, <<"p">> >>],
    [package |-> <<"@","s","/","p">>,            name |-> << <<"@","s">>, <<"p">> >>] }
UVNamed ==
  { [package |-> <<"m","c","p","-","s","e","r","v","e","r","-","g","i","t","=","=","2","0","2","6",".","1",".","1","4">>, name |-> << <<"m","c","p","-","s","e","r","v","e","r","-","g","i","t">> >>],
    [package |-> <<"m","c","p","-","s","e","r","v","e","r","-","g","i","t">>,            name |-> << <<"m","c","p","-","s","e","r","v","e","r","-","g","i","t">> >>],
    [package |-> <<"n","p","m">>,                       name |-> << <<"n","p","m">> >>] }
GoNamed ==
  { [package |-> <<"e","x","a","m","p","l","e",".","c","o","m","/","m","@","v","1",".","2",".","0">>,   name |-> << <<"e","x","a","m","p","l","e",".","c","o","m">>, <<"m">> >>],
    [package |-> <<"e","x","a","m","p","l","e",".","c","o","m","/","m">>,          name |-> << <<"e","x","a","m","p","l","e",".","c","o","m">>, <<"m">> >>],
    [package |-> <<"e","x","a","m","p","l","e",".","c","o","m","/","m","/","c","m","d","/","t","o","o","l">>, name |-> << <<"e","x","a","m","p","l","e",".","c","o","m">>, <<"m">>, <<"c","m","d">>, <<"t","o","o","l">> >>],
    [package |-> <<"e","x","a","m","p","l","e",".","c","o","m","/","m","/","c","m","d","@","t","o","o","l">>, name |-> << <<"e","x","a","m","p","l","e",".","c","o","m">>, <<"m">>, <<"c","m","d">> >>] }
LogicalNames == { <<"s","r","v">>, <<"e","c","h","o">> }

\* What the identities resolve to.
Commits == { CommitA, CommitB }
NPMVersions == { <<"7",".","0",".","0">>, <<"1",".","1",".","0">> }
UVVersions == { <<"2","0","2","6",".","1",".","1","4">>, <<"7",".","0",".","0">> }
GoVersions == { <<"v","1",".","2",".","0">>, <<"l","a","t","e","s","t">>, <<"t","o","o","l">> }
Digests == { <<"d","1">>, <<"d","2">> }
StaticConfigs ==
  { MCPSource(<<"s","t","d","i","o">>, <<"e","c","h","o">>, << >>, << >>, <<"/","u","s","r","/","b","i","n","/","e","c","h","o">>, << >>),
    MCPSource(<<"s","t","d","i","o">>, <<"e","c","h","o">>, << >>, << >>, <<"/","u","s","r","/","l","o","c","a","l","/","b","i","n","/","o","t","h","e","r">>, << >>) }

\* One computed store path: the variant, the source as written, the identity
\* and the segments and path the variant's code gives for it.
Keyed(kind, input, name, resolved, segs) ==
  [kind |-> kind, input |-> input, id |-> << kind, name, resolved >>,
   segs |-> segs, path |-> Path(segs)]

NotPath == << store, gen, localImage, calls, kept, procs, lock, manifest, runs, refCase >>

\* The path computed is kept next to the one computed before it.
Keep(k) ==
  /\ probe.b = << >>
  /\ probe' = IF probe.a = << >> THEN [probe EXCEPT !.a = << k >>]
              ELSE [probe EXCEPT !.b = << k >>]
  /\ UNCHANGED NotPath

PathGit ==
  \E g \in GitNamed, c \in Commits :
    Keep(Keyed("git", g.url, g.name, c, repoSegments(Git(g.url, << >>, c), c)))

PathNPM ==
  \E n \in NPMNamed, v \in NPMVersions :
    Keep(Keyed("npm", n.package, n.name, v,
               npmGetStoreSegments(Managed("npm", n.package, << >>), v)))

PathUV ==
  \E n \in UVNamed, v \in UVVersions :
    Keep(Keyed("uv", n.package, n.name, v,
               uvGetStoreSegments(Managed("uv", n.package, << >>), v)))

PathGo ==
  \E n \in GoNamed, v \in GoVersions :
    Keep(Keyed("go", n.package, n.name, v,
               goGetStoreSegments(Managed("go", n.package, << >>), v)))

PathOCI ==
  \E n \in LogicalNames, d \in Digests :
    Keep(Keyed("oci", n, << n >>, d, ociSegments(Oci(n, <<"i","m","g",":","l","a","t","e","s","t">>, << >>), d)))

PathStatic ==
  \E n \in LogicalNames, c \in StaticConfigs :
    Keep(Keyed("static", n, << n >>, Sha256Hex(Marshal(c)),
               storeSegments(Static(n, c.Command), Marshal(c))))

InitPath ==
  /\ store = EmptyStore
  /\ gen = 1
  /\ localImage = << >>
  /\ calls = << >>
  /\ kept = {}
  /\ procs = << >>
  /\ lock = << >>
  /\ manifest = << >>
  /\ runs = << >>
  /\ refCase = << >>
  /\ probe = [op |-> "path", a |-> << >>, b |-> << >>]

NextPath ==
  \/ PathGit
  \/ PathNPM
  \/ PathUV
  \/ PathGo
  \/ PathOCI
  \/ PathStatic

SpecPath == InitPath /\ [][NextPath]_vars

\* Path p is path q or lies inside the entry at q.
Inside(p, q) == IsPrefix(q, p)

NestedByName(a, b) ==
  /\ a.kind = b.kind
  /\ a.kind \in { "git", "go" }
  /\ Len(a.id[2]) > Len(b.id[2])
  /\ a.id[2][Len(b.id[2]) + 1] = b.id[3]

MaxRef == 6

\* strings.SplitN(s, sep, 2): s cut at the first sep, if any.
SplitN2(s, sep) ==
  IF Index(s, sep) = -1 THEN << s >>
  ELSE << SubSeq(s, 1, Index(s, sep)),
          SubSeq(s, Index(s, sep) + Len(sep) + 1, Len(s)) >>

\* strings.SplitN(s, sep, 2), cutting at the last sep instead.
SplitLast2(s, sep) ==
  IF LastIndex(s, sep) = -1 THEN << s >>
  ELSE << SubSeq(s, 1, LastIndex(s, sep)),
          SubSeq(s, LastIndex(s, sep) + Len(sep) + 1, Len(s)) >>

\* filepath.IsAbs, with the separator the rest of the store code runs with.
IsAbs(path) == HasPrefix(path, Slash)

\* isLocalPath
isLocalPath(ref) ==
  HasPrefix(ref, <<".","/">>) \/ HasPrefix(ref, <<".",".","/">>) \/ IsAbs(ref)

\* The nil Source and the zero config.SkillSource ParseRef returns with an
\* error.
NilSource == Src("nil", << >>, << >>, << >>, << >>, << >>, NoConfig)
NoSkillSource == SkillSource(<< >>, << >>, << >>)

Parsed(src, ss, err) == [src |-> src, ss |-> ss, err |-> err]

\* fmt.Sprintf("https://github.com/%s/%s.git", owner, repo)
gitURL(owner, repo) == <<"h","t","t","p","s",":","/","/","g","i","t","h","u","b",".","c","o","m","/">> \o owner \o Slash \o repo \o <<".","g","i","t">>

\* ParseRef below its test for a local path, given the two parts around '@'.
parseShort(parts) ==
  IF Len(parts) # 2 \/ parts[2] = << >>
  THEN Parsed(NilSource, NoSkillSource, "noref")
  ELSE IF Len(Split(parts[1], Slash)) < 2
  THEN Parsed(NilSource, NoSkillSource, "norepo")
  ELSE LET segments == Split(parts[1], Slash)
           subPath == IF Len(segments) > 2
                      THEN Join(SubSeq(segments, 3, Len(segments)), Slash)
                      ELSE << >>
           url == gitURL(segments[1], segments[2])
       IN  Parsed(Git(url, subPath, parts[2]), SkillSource(url, subPath, parts[2]), "")

\* ParseRef taking the text after the last '@' as the ref.
ParseRefLastAt(ref) ==
  IF isLocalPath(ref)
  THEN Parsed(Local(ref), SkillSource(<< >>, ref, << >>), "")
  ELSE parseShort(SplitLast2(ref, <<"@">>))

\* ParseRef: the Source, the config.SkillSource and the error.
ParseRef(ref) ==
  IF isLocalPath(ref)
  THEN Parsed(Local(ref), SkillSource(<< >>, ref, << >>), "")
  ELSE parseShort(SplitN2(ref, <<"@">>))

\* The bytes the reference strings are made of, and the references of
\* TestParseRef and TestIsLocalPath.
RefBytes == { "o", "/", "@", "." }
TestRefs ==
  { <<"a","n","t","h","r","o","p","i","c","s","/","s","k","i","l","l","s","/","s","k","i","l","l","s","/","p","d","f","@","m","a","i","n">>, <<"a","n","t","h","r","o","p","i","c","s","/","s","k","i","l","l","s","@","v","1",".","0">>,
    <<"o","r","g","/","r","e","p","o","/","a","/","b","/","c","/","d","@","f","e","a","t","u","r","e">>, <<".","/","m","y","-","s","k","i","l","l","s","/","r","e","v","i","e","w">>, <<".",".","/","o","t","h","e","r","/","s","k","i","l","l">>,
    <<"/","h","o","m","e","/","u","s","e","r","/","s","k","i","l","l","s","/","p","d","f">>, <<"a","n","t","h","r","o","p","i","c","s","/","s","k","i","l","l","s">>, <<"a","n","t","h","r","o","p","i","c","s","/","s","k","i","l","l","s","@">>,
    <<"a","n","t","h","r","o","p","i","c","s","@","m","a","i","n">>, <<"o","w","n","e","r","/","r","e","p","o","@","m","a","i","n">>, <<"m","y","-","s","k","i","l","l">>, <<".","/","f","o","o">>, <<".",".","/","b","a","r">>,
    <<"@","s","c","o","p","e","/","p","k","g","@","1",".","0">>, <<"o","w","n","e","r","/","@","m","a","i","n">>, <<"o","w","n","e","r","/","/","s","k","i","l","l","s","/","p","d","f","@","m","a","i","n">>,
    <<"o","/","r","@","u","s","e","r","@","h","o","s","t">>, <<".","h","i","d","d","e","n","/","s","k","i","l","l","@","m","a","i","n">>, <<"~","/","s","k","i","l","l","s","/","p","d","f">> }
RefStrings == TestRefs \cup UNION { [1..n -> RefBytes] : n \in 0..MaxRef }

NotParse == << store, gen, localImage, calls, kept, procs, lock, manifest, runs, refCase >>

\* One call of ParseRef, on the string at hand.
Parse ==
  /\ probe.op = "ref"
  /\ probe' = [op |-> "parse", ref |-> probe.ref, out |-> ParseRef(probe.ref)]
  /\ UNCHANGED NotParse

\* The record ParseRef returned, read back from the manifest into a Source.
FromConfig ==
  /\ probe.op = "parse"
  /\ probe.out.err = ""
  /\ probe' = [op |-> "config", ref |-> probe.ref, out |-> probe.out,
               src |-> SourceFromSkillConfig(probe.out.ss)]
  /\ UNCHANGED NotParse

InitParse ==
  /\ store = EmptyStore
  /\ gen = 1
  /\ localImage = << >>
  /\ calls = << >>
  /\ kept = {}
  /\ procs = << >>
  /\ lock = << >>
  /\ manifest = << >>
  /\ runs = << >>
  /\ refCase = << >>
  /\ probe \in { [op |-> "ref", ref |-> ref] : ref \in RefStrings }

NextParse ==
  \/ Parse
  \/ FromConfig

SpecParse == InitParse /\ [][NextParse]_vars

\* The grammar of the spec, read off the bytes of the string: where the
\* first '@' is, where the '/' before it are.
StartsWith(ref, n, text) == Len(ref) >= n /\ \A i \in 1..n : ref[i] = text[i]
LocalShape(ref) ==
  StartsWith(ref, 2, <<".","/">>) \/ StartsWith(ref, 3, <<".",".","/">>) \/ StartsWith(ref, 1, <<"/">>)
HasAt(ref) == \E i \in DOMAIN ref : ref[i] = "@"
AtPos(ref) == CHOOSE i \in DOMAIN ref : ref[i] = "@" /\ \A j \in 1..(i - 1) : ref[j] # "@"
SlashesBefore(ref, at) == { i \in 1..(at - 1) : ref[i] = "/" }
FirstOf(S) == CHOOSE i \in S : \A j \in S : i <= j
RepoEnd(ref, at) ==
  IF Cardinality(SlashesBefore(ref, at)) > 1
  THEN FirstOf(SlashesBefore(ref, at) \ { FirstOf(SlashesBefore(ref, at)) })
  ELSE at
OwnerOf(ref, at) == SubSeq(ref, 1, FirstOf(SlashesBefore(ref, at)) - 1)
RepoOf(ref, at) == SubSeq(ref, FirstOf(SlashesBefore(ref, at)) + 1, RepoEnd(ref, at) - 1)
SubPathOf(ref, at) == SubSeq(ref, RepoEnd(ref, at) + 1, at - 1)
RefOf(ref, at) == SubSeq(ref, at + 1, Len(ref))

\* The string has an owner segment, a repo segment and a ref after '@',
\* none of them empty.
OwnerRepoRef(ref) ==
  /\ HasAt(ref)
  /\ RefOf(ref, AtPos(ref)) # << >>
  /\ SlashesBefore(ref, AtPos(ref)) # {}
  /\ OwnerOf(ref, AtPos(ref)) # << >>
  /\ RepoOf(ref, AtPos(ref)) # << >>

\* C19: for a reference that is not a local path, ParseRef succeeds only if
\* the string has an owner segment, a repo segment and a non-empty ref after
\* '@'; a string without one of them (no '@', empty ref, one segment before
\* '@', an empty owner or repo) gets a parse error and no Source.
RefGrammarEnforced ==
  (probe.op = "parse" /\ ~LocalShape(probe.ref)) =>
    /\ probe.out.err = "" => OwnerRepoRef(probe.ref)
    /\ ~OwnerRepoRef(probe.ref) =>
         /\ probe.out.err # ""
         /\ probe.out.src = NilSource
         /\ probe.out.ss = NoSkillSource

\* C20: ParseRef takes a reference as local exactly when it starts with
\* "./", "../" or "/", and then returns a LocalSource and a config record
\* with only Path set, both holding the string as given; every other
\* reference it accepts gives a GitSource and a config record with the URL
\* https://github.com/<owner>/<repo>.git, the segments after the repo joined
\* by "/" as Path, and the text after '@' as Ref.
ParseRefClassifies ==
  probe.op = "parse" =>
    /\ LocalShape(probe.ref) <=> probe.out.src.kind = "local"
    /\ LocalShape(probe.ref) =>
         /\ probe.out.err = ""
         /\ probe.out.src = Local(probe.ref)
         /\ probe.out.ss = [Git |-> << >>, Path |-> probe.ref, Ref |-> << >>]
    /\ (~LocalShape(probe.ref) /\ probe.out.err = "") =>
         /\ HasAt(probe.ref)
         /\ SlashesBefore(probe.ref, AtPos(probe.ref)) # {}
         /\ probe.out.src.kind = "git"
         /\ probe.out.src.URL = <<"h","t","t","p","s",":","/","/","g","i","t","h","u","b",".","c","o","m","/">> \o OwnerOf(probe.ref, AtPos(probe.ref))
                                 \o <<"/">> \o RepoOf(probe.ref, AtPos(probe.ref)) \o <<".","g","i","t">>
         /\ probe.out.src.Path = SubPathOf(probe.ref, AtPos(probe.ref))
         /\ probe.out.src.Ref = RefOf(probe.ref, AtPos(probe.ref))
         /\ probe.out.ss = [Git |-> probe.out.src.URL, Path |-> probe.out.src.Path,
                            Ref |-> probe.out.src.Ref]

\* A reference with a deep sub-path has been parsed into its GitSource.
ParseRefClassifiesWitness ==
  /\ probe.op = "parse"
  /\ probe.ref = <<"o","r","g","/","r","e","p","o","/","a","/","b","/","c","/","d","@","f","e","a","t","u","r","e">>
  /\ probe.out.err = ""
  /\ probe.out.src = Git(<<"h","t","t","p","s",":","/","/","g","i","t","h","u","b",".","c","o","m","/","o","r","g","/","r","e","p","o",".","g","i","t">>, <<"a","/","b","/","c","/","d">>, <<"f","e","a","t","u","r","e">>)

\* C39: for every reference ParseRef accepts, SourceFromSkillConfig applied
\* to the returned record yields a source of the same variant with the same
\* URL, Path and Ref as the returned Source.
RecordDescribesSource ==
  probe.op = "config" =>
    /\ probe.src.kind = probe.out.src.kind
    /\ probe.src.URL = probe.out.src.URL
    /\ probe.src.Path = probe.out.src.Path
    /\ probe.src.Ref = probe.out.src.Ref

\* The record of a git reference with a sub-path was read back.
RecordDescribesSourceWitness ==
  /\ probe.op = "config"
  /\ probe.ref = <<"o","r","g","/","r","e","p","o","/","a","/","b","/","c","/","d","@","f","e","a","t","u","r","e">>
  /\ probe.src.kind = "git"
  /\ probe.src.Ref = <<"f","e","a","t","u","r","e">>

(***************************************************************************)
(* Version resolution of the managed packages, applied on its own to the   *)
(* package specs a manifest can hold.                                      *)
(***************************************************************************)

\* The longest package spec tried of every string over PkgBytes.
MaxPkg == 5

\* The bytes the PyPI specs are made of, and the specs of the tests.
PkgBytes == { "p", "=", "1" }
TestPkgs ==
  { <<"m","c","p","-","s","e","r","v","e","r","-","g","i","t">>, <<"m","c","p","-","s","e","r","v","e","r","-","g","i","t","=","=","1",".","2",".","3">>, <<"m","c","p","-","s","e","r","v","e","r","-","g","i","t","=","=","2",".","1",".","0">>,
    <<"m","y","-","t","o","o","l","=","=","0",".","1",".","0","r","c","1">>, <<"m","c","p","-","s","e","r","v","e","r","-","g","i","t","=","=","2","0","2","6",".","1",".","1","4">> }
PkgStrings == TestPkgs \cup UNION { [1..n -> PkgBytes] : n \in 1..MaxPkg }

UVInputs ==
  { [op |-> "uv", s |-> Managed("uv", pkg, << >>), net |-> net, gen |-> g] :
      pkg \in PkgStrings, net \in BOOLEAN, g \in 1..2 }

\* The npm specs tried: a bare name, an exact version, ranges, and specs the
\* registry answers with an empty list, with nothing, with something else
\* or not at all.
NpmSpecs ==
  { <<"i","s","-","n","u","m","b","e","r">>, <<"i","s","-","n","u","m","b","e","r","@","7",".","0",".","0">>, <<"@","s","/","p","@","^","1">>, <<"i","s","-","n","u","m","b","e","r","@",">","=","6">>,
    <<"i","s","-","n","u","m","b","e","r","@","7",".","0",".","x">>, <<"i","s","-","n","u","m","b","e","r","@","<","1">>, <<"i","s","-","n","u","m","b","e","r","@","9">>, <<"n","@","1">>, <<"o","@","1">>,
    <<"n","o","p","e">> }
NPMInputs ==
  { [op |-> "npm", s |-> Managed("npm", spec, << >>), net |-> net, gen |-> g] :
      spec \in NpmSpecs, net \in BOOLEAN, g \in 1..2 }

NotVersion == << store, gen, localImage, calls, kept, procs, lock, manifest, runs, refCase >>

\* UVSource.Fetch up to its cache segments: the version resolved and the
\* segments made of it.
ResolveUV ==
  /\ probe.op = "uv"
  /\ \E rv \in { uvResolveConcreteVersion(probe.s, probe.net, probe.gen) } :
       probe' = [op |-> "uvdone", s |-> probe.s, net |-> probe.net, gen |-> probe.gen,
                 rv |-> rv,
                 segs |-> IF rv.err = "" THEN uvGetStoreSegments(probe.s, rv.version)
                          ELSE << >>]
  /\ UNCHANGED NotVersion

\* NPMSource.Fetch on the empty store, with the version it resolved.
ResolveNPM ==
  /\ probe.op = "npm"
  /\ \E o \in { NPMFetch(probe.s, store, probe.net, TRUE, probe.gen) } :
       /\ store' = o.store
       /\ probe' = [op |-> "npmdone", s |-> probe.s, net |-> probe.net, gen |-> probe.gen,
                    rv |-> npmResolveConcreteVersion(probe.s, probe.net, probe.gen),
                    o |-> o]
  /\ UNCHANGED << gen, localImage, calls, kept, procs, lock, manifest, runs, refCase >>

InitVersion ==
  /\ store = EmptyStore
  /\ gen = 1
  /\ localImage = << >>
  /\ calls = << >>
  /\ kept = {}
  /\ procs = << >>
  /\ lock = << >>
  /\ manifest = << >>
  /\ runs = << >>
  /\ refCase = << >>
  /\ probe \in UVInputs \cup NPMInputs

NextVersion ==
  \/ ResolveUV
  \/ ResolveNPM

SpecVersion == InitVersion /\ [][NextVersion]_vars

\* Where the pinned marker is: the first place two '=' stand side by side.
PinPlaces(pkg) == { i \in 1..(Len(pkg) - 1) : pkg[i] = "=" /\ pkg[i + 1] = "=" }
PinAt(pkg) == CHOOSE i \in PinPlaces(pkg) : \A j \in PinPlaces(pkg) : i <= j

\* C21: for a PyPI spec with the pinned marker "==" the version is resolved
\* without a network call, network up or down, and is the text after the
\* marker; the cache segments are uv, the name before the marker, that
\* version.
PinnedUVResolution ==
  (probe.op = "uvdone" /\ PinPlaces(probe.s.Package) # {}) =>
    /\ probe.rv.err = ""
    /\ probe.rv.ops = << >>
    /\ probe.rv.version = SubSeq(probe.s.Package, PinAt(probe.s.Package) + 2,
                                 Len(probe.s.Package))
    /\ probe.segs = << <<"u","v">>,
                       SubSeq(probe.s.Package, 1, PinAt(probe.s.Package) - 1),
                       probe.rv.version >>

\* The pinned spec of the example has been resolved with the network down.
PinnedUVResolutionWitness ==
  /\ probe.op = "uvdone"
  /\ probe.s.Package = <<"m","c","p","-","s","e","r","v","e","r","-","g","i","t","=","=","2","0","2","6",".","1",".","1","4">>
  /\ ~probe.net
  /\ probe.segs = << <<"u","v">>, <<"m","c","p","-","s","e","r","v","e","r","-","g","i","t">>, <<"2","0","2","6",".","1",".","1","4">> >>

\* What the registry printed for the spec of the call at hand.
Printed == NpmView(probe.s.Package, probe.gen).json

\* The name of an npm spec: the text before its last '@', unless that '@'
\* opens the spec.
NpmNameEnd(pkg) ==
  IF \E i \in 2..Len(pkg) : pkg[i] = "@"
  THEN (CHOOSE i \in 2..Len(pkg) : pkg[i] = "@" /\ \A j \in (i + 1)..Len(pkg) : pkg[j] # "@") - 1
  ELSE Len(pkg)

OciSources ==
  { Oci(<<"s","r","v">>, <<"i","m","g",":","l","a","t","e","s","t">>, << >>),
    [Oci(<<"s","r","v">>, <<"i","m","g",":","l","a","t","e","s","t">>, << >>) EXCEPT !.MCPConfig.Path = <<"/","a","p","i">>],
    Oci(<<"o","t","h","e","r">>, <<"i","m","g",":","l","a","t","e","s","t">>, <<"x">>) }
OciFaults == { "none", "net", "disk", "engine", "cancel" }

\* OCISource.Fetch
OciFetch ==
  /\ Len(calls) < MaxCalls
  /\ \E s \in OciSources, f \in OciFaults :
       \E o \in { OCIFetch(s, store, localImage, Engine(f), Net(f), Live(f), Disk(f), gen) } :
         /\ Finish(s, f, o, o.cfg)
         /\ localImage' = o.local

\* The registry serves a new image under the tag.
RegistryMoves ==
  /\ gen = 1
  /\ gen' = 2
  /\ UNCHANGED << store, localImage, calls, kept, procs, lock, manifest, runs, refCase, probe >>

\* The user removes the local image (`image rm`).
ImageRemoved ==
  /\ localImage # << >>
  /\ localImage' = << >>
  /\ UNCHANGED << store, gen, calls, kept, procs, lock, manifest, runs, refCase, probe >>

InitOCI ==
  /\ store = EmptyStore
  /\ gen = 1
  /\ localImage \in { << >>, <<"s","h","a","2","5","6",":","d","0">> }
  /\ calls = << >>
  /\ kept = {}
  /\ procs = << >>
  /\ lock = << >>
  /\ manifest = << >>
  /\ runs = << >>
  /\ refCase = << >>
  /\ probe = << >>

NextOCI ==
  \/ OciFetch
  \/ RegistryMoves
  \/ ImageRemoved

SpecOCI == InitOCI /\ [][NextOCI]_vars

\* The pull command of the call ran: it was issued, and under a live context
\* (exec.Cmd.Start refuses to start a command whose context is done).
PullRan(c) == (\E k \in DOMAIN c.ops : c.ops[k] = "pull") /\ c.fault # "cancel"

\* C23: a Fetch of an OCI source runs the engine's pull only after the local
\* existence check, and only when the image was absent; with the image
\* present locally no pull runs and the local image stays as it is, also
\* when the registry holds a newer one.
PullOnlyWhenAbsent ==
  [][Len(calls') = Len(calls) + 1
       => /\ PullRan(calls'[Len(calls')]) =>
               /\ localImage = << >>
               /\ calls'[Len(calls')].ops[1] = "image-inspect"
               /\ calls'[Len(calls')].ops[2] = "pull"
          /\ localImage # << >> =>
               /\ ~PullRan(calls'[Len(calls')])
               /\ localImage' = localImage]_vars

\* Two fetches, the first one pulling, the second one after the registry
\* moved: it succeeds without a pull.
PullOnlyWhenAbsentWitness ==
  /\ Len(calls) = 2
  /\ PullRan(calls[1])
  /\ calls[1].err = ""
  /\ calls[1].gen = 1
  /\ calls[2].gen = 2
  /\ calls[2].err = ""
  /\ calls[2].ops = << "image-inspect", "image-inspect" >>
  /\ localImage = <<"s","h","a","2","5","6",":","d","1">>

\* The ID the engine reports for the local image, as the caller gets it:
\* without the "sha256:" it may start with.
Reported(id) == IF StartsWith(id, 7, <<"s","h","a","2","5","6",":">>) THEN SubSeq(id, 8, Len(id)) ELSE id

CommitGone == Pad(<<"d","e","a","d">>, "0")

\* The git sources fetched: sub-paths of one repository by branch, tag and
\* commit, under both forms of its URL.
GitStepCases ==
  { Git(RepoURL, <<"s","k","i","l","l","s","/","p","d","f">>, <<"m","a","i","n">>),
    Git(RepoURL, << >>, <<"m","a","i","n">>),
    Git(RepoSSH, <<"s","k","i","l","l","s">>, <<"m","a","i","n">>),
    Git(RepoURL, <<"s","k","i","l","l","s","/","p","d","f">>, CommitA),
    Git(RepoURL, << >>, <<"v","1",".","0">>),
    Git(RepoURL, <<"n","o","p","e">>, <<"m","a","i","n">>),
    Git(RepoURL, << >>, CommitGone) } \X { "none" }

\* No call is running.
Idle == [Started(<< Git(RepoURL, << >>, <<"m","a","i","n">>), "none" >>) EXCEPT !.pc = "idle"]

\* A Fetch is called.
GitCall ==
  /\ procs[1].pc = "idle"
  /\ Len(calls) < MaxCalls
  /\ \E c \in GitStepCases : procs' = << Started(c) >>
  /\ UNCHANGED << store, Others >>

\* The Fetch returns.
GitReturn ==
  /\ procs[1].pc = "done"
  /\ calls' = Append(calls, procs[1])
  /\ procs' = << Idle >>
  /\ UNCHANGED << store, gen, localImage, kept, lock, manifest, runs, refCase, probe >>

InitGit ==
  /\ store = EmptyStore
  /\ gen = 1
  /\ localImage = << >>
  /\ calls = << >>
  /\ kept = {}
  /\ procs = << Idle >>
  /\ lock = << >>
  /\ manifest = << >>
  /\ runs = << >>
  /\ refCase = << >>
  /\ probe = << >>

\* With one call at a time a failed clone leaves directories and no file, so
\* the removal is that of the directories.
NextGit ==
  \/ GitCall
  \/ ConcResolve(1)
  \/ ConcExists(1)
  \/ ConcEnsureDir(1)
  \/ ConcClone(1)
  \/ ConcRemoveDirs(1)
  \/ ConcWalk(1)
  \/ ConcRead(1)
  \/ GitReturn
  \/ BranchMoves

SpecGit == InitGit /\ [][NextGit]_vars

\* The (relative path, content) pairs of the files at or below a location.
PairsUnder(st, p) == { << Rel(p, f), st.files[f] >> : f \in FilesUnder(st, p) }

\* The call that has just finished, with success.
Returned == procs[1].pc = "done" /\ procs[1].err = ""

\* An earlier successful call for the same repository and commit, with
\* another sub-path.
SharedWith(c) ==
  /\ c.err = ""
  /\ c.key = procs[1].key
  /\ c.src.Path # procs[1].src.Path

\* C25: a successful Fetch of a git source returns as Dir the sub-path
\* inside the clone (the clone itself without a sub-path) and as Integrity
\* the digest of the files below Dir alone; a Fetch of the same repository
\* and commit with another sub-path uses the same entry and does not clone.
SubPathIntegrity ==
  Returned =>
    /\ procs[1].res.Dir
         = PathString(procs[1].segs
                      \o IF procs[1].src.Path = << >> THEN << >>
                         ELSE Split(procs[1].src.Path, <<"/">>))
    /\ procs[1].res.Integrity
         = DigestOfPairs(PairsUnder(store,
             Path(procs[1].segs \o IF procs[1].src.Path = << >> THEN << >>
                                   ELSE Split(procs[1].src.Path, <<"/">>))))
    /\ \A i \in DOMAIN calls :
         SharedWith(calls[i]) =>
           /\ procs[1].segs = calls[i].segs
           /\ ~procs[1].sawMiss

\* The whole repository has been fetched after its skills/pdf: from the same
\* entry, without a clone.
SubPathIntegrityWitness ==
  /\ Returned
  /\ procs[1].src.Path = << >>
  /\ Len(calls) = 1
  /\ calls[1].err = ""
  /\ calls[1].src.Path = <<"s","k","i","l","l","s","/","p","d","f">>
  /\ calls[1].sawMiss
  /\ calls[1].segs = procs[1].segs
  /\ ~procs[1].sawMiss

\* The full commits the remote holds, and the cache segments of each.
HeldCommits == { CommitA, CommitB }
EntryOf(commit) == << <<"r","e","p","o","s">>, <<"g","i","t","h","u","b",".","c","o","m">>, <<"o">>, <<"r">>, commit >>

\* The files of the work tree in an entry: all but those of its .git.
WorkFiles(st, segs) ==
  { f \in FilesUnder(st, Path(segs)) : ~IsPrefix(Path(segs \o << <<".","g","i","t">> >>), f) }

\* C29: a git cache entry that holds a work tree holds the work tree of the
\* commit in its last segment, file by file, also when the branch moved
\* between ls-remote and the clone.
EntryHoldsItsCommit ==
  \A commit \in HeldCommits :
    WorkFiles(store, EntryOf(commit)) # {} =>
      /\ { Rel(Path(EntryOf(commit)), f) : f \in WorkFiles(store, EntryOf(commit)) }
           = { Join(r, <<"/">>) : r \in DOMAIN TreeOf(commit) }
      /\ \A r \in DOMAIN TreeOf(commit) :
           store.files[Path(EntryOf(commit) \o r)] = TreeOf(commit)[r]

(***************************************************************************)
(* `apkg install skill <ref>` and `apkg remove skill <name>` on the        *)
(* manifest and the lockfile of one project, no agent selected.            *)
(***************************************************************************)

\* The `name` of the SKILL.md front matter: the skill of the repository is
\* "pdf" at either commit, the one in the working directory "loc".
SkillName(src) == IF src.kind = "git" THEN <<"p","d","f">> ELSE <<"l","o","c">>

\* Installer.InstallSkill from the fetch's return on: skill.Load; the skills
\* of this model validate and there is no agent to project to.
loadFetched(src, o) ==
  [store |-> o.store, res |-> o.res, name |-> SkillName(src),
   err |-> IF o.err # "" THEN "fetch"
           ELSE IF ~SkillFileOpens(src, o) THEN "load"
           ELSE ""]

\* Installer.InstallSkill
InstallSkill(src, st, fault, g) == loadFetched(src, FetchSkill(src, st, fault, g))

\* entryKey
entryKey(e) == IF e.Git # << >> THEN e.Git \o <<"|">> \o e.Path ELSE e.Path

\* upsertLockEntry: the first entry under the key is replaced, or the entry
\* is appended.
upsertLockEntry(entries, entry) ==
  LET hits == { i \in DOMAIN entries : entryKey(entries[i]) = entryKey(entry) }
  IN  IF hits = {} THEN Append(entries, entry)
      ELSE [entries EXCEPT ![CHOOSE i \in hits : \A j \in hits : i <= j] = entry]

\* filterSkillLockEntries
filterSkillLockEntries(entries, names) ==
  SelectSeq(entries, LAMBDA e : e.Name \notin names)

CmdResult(cfg, lf, st, err, name) ==
  [cfg |-> cfg, lock |-> lf, store |-> st, err |-> err, name |-> name]

\* runInstallSkill from InstallSkill's return on: the manifest entry under
\* the skill's name, the lock entry under its key.
recordInstalled(ss, r, cfg, lf) ==
  IF r.err # "" THEN CmdResult(cfg, lf, r.store, r.err, << >>)
  ELSE CmdResult(
         [n \in DOMAIN cfg \cup { r.name } |-> IF n = r.name THEN ss ELSE cfg[n]],
         [lf EXCEPT !.Skills =
            upsertLockEntry(lf.Skills,
              SkillLockEntry(ss.Git, ss.Path, r.res.Ref, r.res.Commit,
                             r.res.Integrity))],
         r.store, "", r.name)

\* runInstallSkill from ParseRef's return on.
installParsed(p, cfg, lf, st, fault, g) ==
  IF p.err # "" THEN CmdResult(cfg, lf, st, p.err, << >>)
  ELSE recordInstalled(p.ss, InstallSkill(p.src, st, fault, g), cfg, lf)

\* runInstallSkill
runInstallSkill(ref, cfg, lf, st, fault, g) ==
  installParsed(ParseRef(ref), cfg, lf, st, fault, g)

\* runRemoveSkill: the name must be in the manifest; it is deleted there and
\* the lock entries of that name are filtered out.
runRemoveSkill(name, cfg, lf, st) ==
  IF name \notin DOMAIN cfg THEN CmdResult(cfg, lf, st, "notfound", name)
  ELSE CmdResult([n \in DOMAIN cfg \ { name } |-> cfg[n]],
                 [lf EXCEPT !.Skills = filterSkillLockEntries(lf.Skills, { name })],
                 st, "", name)

\* The references and the names the commands are given.
CmdRefs ==
  { <<"o","/","r","/","s","k","i","l","l","s","/","p","d","f","@","m","a","i","n">>, <<"o","/","r","/","s","k","i","l","l","s","/","p","d","f","@","v","1",".","0">>, <<".","/","s","k","i","l","l">>,
    <<"o","/","r","@","m","a","i","n">>, <<"o","/","r","/","s","k","i","l","l","s","/","p","d","f">>, <<".","/","m","i","s","s","i","n","g">> }
CmdNames == { <<"p","d","f">>, <<"l","o","c">>, <<"x">> }

Ran(cmd, arg, had, r) ==
  [n |-> runs.n + 1, streak |-> 0,
   last |-> << [cmd |-> cmd, arg |-> arg, had |-> had, name |-> r.name,
                err |-> r.err] >>]

\* `apkg install skill <ref>`
InstallSkillCmd ==
  /\ runs.n < MaxRuns
  /\ \E ref \in CmdRefs, fault \in { "none", "net" } :
     \E r \in { runInstallSkill(ref, manifest, lock, store, fault, gen) } :
       /\ store' = r.store
       /\ manifest' = r.cfg
       /\ lock' = r.lock
       /\ runs' = Ran("install", ref, NoSkillSource, r)
  /\ UNCHANGED << gen, Untouched >>

\* `apkg remove skill <name>`
RemoveSkillCmd ==
  /\ runs.n < MaxRuns
  /\ \E name \in CmdNames :
     \E r \in { runRemoveSkill(name, manifest, lock, store) } :
       /\ manifest' = r.cfg
       /\ lock' = r.lock
       /\ runs' = Ran("remove", name,
                      IF name \in DOMAIN manifest THEN manifest[name]
                      ELSE NoSkillSource, r)
  /\ UNCHANGED << store, gen, Untouched >>

InitCmd ==
  /\ store = EmptyStore
  /\ gen = 1
  /\ localImage = << >>
  /\ calls = << >>
  /\ kept = {}
  /\ procs = << >>
  /\ lock = LockFile(<< >>)
  /\ manifest = << >>
  /\ runs = [n |-> 0, streak |-> 0, last |-> << >>]
  /\ refCase = << >>
  /\ probe = << >>

NextCmd ==
  \/ InstallSkillCmd
  \/ RemoveSkillCmd
  \/ BranchMoves

SpecCmd == InitCmd /\ [][NextCmd]_vars

\* The lock entries under the key of a manifest entry.
EntriesOf(ss) == { i \in DOMAIN lock.Skills : entryKey(lock.Skills[i]) = lockKey(ss) }

\* C26: after any sequence of install-skill and remove-skill commands the
\* lockfile's skill entries correspond exactly to the skills of the manifest,
\* and after a successful `remove skill N` neither the manifest nor the
\* lockfile has an entry for N.
LockMatchesManifest ==
  /\ \A n \in DOMAIN manifest : Cardinality(EntriesOf(manifest[n])) = 1
  /\ \A i \in DOMAIN lock.Skills :
       \E n \in DOMAIN manifest : i \in EntriesOf(manifest[n])
  /\ (runs.last # << >> /\ runs.last[1].cmd = "remove" /\ runs.last[1].err = "")
       => /\ runs.last[1].arg \notin DOMAIN manifest
          /\ EntriesOf(runs.last[1].had) = {}

(***************************************************************************)
(* Store.Remove on its own: a tree that is built file by file and          *)
(* directory by directory, and paths removed from it, there or not.        *)
(***************************************************************************)

\* The segments Remove is called with: the files and directories of the
\* tree, a directory given as one segment with a separator, a path that
\* never exists, a path below a file.
RemoveArgs ==
  TreeFiles \cup TreeDirs \cup
    { << <<"t","/","a">> >>, << <<"g","h","o","s","t">> >>, << <<"u">>, <<"x">> >>, << <<"t">>, <<"e">>, <<"f">>, <<"g">> >> }

\* Every location the tree can have something at.
TreeLocs == { Path(l) : l \in RemoveArgs }

\* store.Remove of a path; probe keeps the segments and the store before.
StoreRemove ==
  /\ \E l \in RemoveArgs :
       /\ store' = Remove(store, l)
       /\ probe' = [op |-> "remove", segs |-> l, before |-> store]
       /\ probe' # probe
  /\ UNCHANGED NotTree

NextStore ==
  \/ TreeMkdir
  \/ TreeWrite
  \/ StoreRemove

SpecStore == InitHash /\ [][NextStore]_vars

\* A location at or below the path of the segments.
AtOrBelow(segs, l) ==
  /\ Len(l) >= Len(Path(segs))
  /\ \A i \in 1..Len(Path(segs)) : l[i] = Path(segs)[i]

\* What is at a location: nothing, a directory, or a file and its content.
At(st, l) ==
  IF l \in DOMAIN st.files THEN << "file", st.files[l] >>
  ELSE IF l \in st.dirs THEN << "dir" >>
  ELSE << >>

\* C27: after Store.Remove(segments) nothing exists at the path or below it,
\* every location outside that subtree is as it was, and removing a path
\* that does not exist leaves the store as it was.
RemoveIsRecursive ==
  probe.op = "remove" =>
    /\ \A l \in TreeLocs :
         IF AtOrBelow(probe.segs, l)
         THEN ~Exists(store, l)
         ELSE At(store, l) = At(probe.before, l)
    /\ store.dirs \cup DOMAIN store.files \subseteq TreeLocs
    /\ ~Exists(probe.before, probe.segs) => store = probe.before

\* A directory with a file two levels down was removed while a sibling whose
\* name starts with the directory's name and a file outside were there.
RemoveIsRecursiveWitness ==
  /\ probe.op = "remove"
  /\ probe.segs = << <<"t">>, <<"a">> >>
  /\ << <<"t">>, <<"a">>, <<"b">> >> \in DOMAIN probe.before.files
  /\ << <<"t">>, <<"a",".","b">> >> \in DOMAIN store.files
  /\ << <<"u">> >> \in DOMAIN store.files
  /\ << <<"t">> >> \in store.dirs

(***************************************************************************)
(* `apkg serve`: the proxy over the containers discovered in the store,    *)
(* its requests, the clock and the idle reaper.  procs holds               *)
(* Server.Containers, kept the names of the containers the engine runs,    *)
(* gen the clock and probe the last request with its answer.               *)
(***************************************************************************)

MaxClock == 3
DefaultContainerPort == 8080
\* DefaultIdleTimeout, in ticks of the clock.
IdleTimeout == 1

\* The stores the server is started on: one OCI server installed, the same
\* one installed again after the registry moved, one next to a server whose
\* descriptor could not be written, two servers.
ServeSrv == Oci(<<"s","r","v">>, <<"i","m","g",":","l","a","t","e","s","t">>, << >>)
ServeOther == Oci(<<"o","t","h","e","r">>, <<"i","m","g",":","l","a","t","e","s","t">>, <<"x">>)
ImageInstalled(s, st, diskOK, g) == OCIFetch(s, st, << >>, TRUE, TRUE, TRUE, diskOK, g).store
ServeStores ==
  { ImageInstalled(ServeSrv, EmptyStore, TRUE, 1),
    ImageInstalled(ServeSrv, ImageInstalled(ServeSrv, EmptyStore, TRUE, 1), TRUE, 2),
    ImageInstalled(ServeOther, ImageInstalled(ServeSrv, EmptyStore, TRUE, 1), FALSE, 1),
    ImageInstalled(ServeOther, ImageInstalled(ServeSrv, EmptyStore, TRUE, 1), TRUE, 2) }

\* toml.Unmarshal of a descriptor: the config that marshals to the text.
ServeConfigs ==
  { Stamp(s.MCPConfig, d) : s \in { ServeSrv, ServeOther }, d \in { <<"d","1">>, <<"d","2">> } }
Unmarshal(data) ==
  IF \E c \in ServeConfigs : Marshal(c) = data
  THEN [ok |-> TRUE, ms |-> CHOOSE c \in ServeConfigs : Marshal(c) = data]
  ELSE [ok |-> FALSE, ms |-> NoConfig]

containerKey(name, digest) == [name |-> name, digest |-> digest]

\* managedContainer as discoverContainers makes it: stopped, no proxy, the
\* zero time.
managedContainer(name, ms) ==
  [name |-> name, image |-> ms.Image, containerPort |-> DefaultContainerPort,
   hostPort |-> 0, status |-> "stopped", proxy |-> FALSE, lastUsed |-> 0]

\* oci/<name>/<digest>/mcp.toml read and parsed, for a directory of the store.
Descriptor(st, d) ==
  IF IsFile(st, d \o << McpFileName >>)
  THEN Unmarshal(st.files[d \o << McpFileName >>])
  ELSE [ok |-> FALSE, ms |-> NoConfig]

\* discoverContainers
discoverContainers(st) ==
  LET found == { d \in st.dirs :
                   /\ Len(d) = 3
                   /\ d[1] = <<"o","c","i">>
                   /\ Descriptor(st, d).ok
                   /\ Descriptor(st, d).ms.Container
                   /\ Descriptor(st, d).ms.Image # << >> }
  IN  [k \in { containerKey(d[2], d[3]) : d \in found } |->
         managedContainer(k.name, Descriptor(st, << <<"o","c","i">>, k.name, k.digest >>).ms)]

\* containerName
containerName(mc) == <<"a","p","k","g","-">> \o mc.name

Ensured(mc, engine, ok) == [mc |-> mc, engine |-> engine, ok |-> ok]

\* A port freePort returned.
FreePort == 49152

\* ensureRunning: nothing for a running container; else pull, stop of a
\* container left under the name, a free port, run, the wait for the port.
\* fault names the step that fails.
ensureRunning(mc, engine, now, fault) ==
  IF mc.status = "running" THEN Ensured(mc, engine, TRUE)
  ELSE IF fault = "pull"
  THEN Ensured([mc EXCEPT !.status = "stopped"], engine, FALSE)
  ELSE IF fault = "port"
  THEN Ensured([mc EXCEPT !.status = "stopped"], engine \ { containerName(mc) }, FALSE)
  ELSE IF fault \in { "run", "tcp" }
  THEN Ensured([mc EXCEPT !.status = "stopped", !.hostPort = FreePort],
               engine \ { containerName(mc) }, FALSE)
  ELSE Ensured([mc EXCEPT !.status = "running", !.hostPort = FreePort,
                          !.proxy = TRUE, !.lastUsed = now],
               engine \cup { containerName(mc) }, TRUE)

Answer(code, containers, engine) ==
  [code |-> code, containers |-> containers, engine |-> engine]

\* proxyHandler from ensureRunning's return on: 503 on its error, touch, and
\* the reverse proxy, whose error handler marks the container stopped.
proxied(key, er, containers, now, fault) ==
  IF ~er.ok
  THEN Answer(503, [containers EXCEPT ![key] = er.mc], er.engine)
  ELSE IF ~er.mc.proxy
  THEN Answer(503, [containers EXCEPT ![key] = [er.mc EXCEPT !.lastUsed = now]], er.engine)
  ELSE IF fault = "upstream"
  THEN Answer(502, [containers EXCEPT ![key] =
                      [er.mc EXCEPT !.lastUsed = now, !.status = "stopped",
                                    !.proxy = FALSE]], er.engine)
  ELSE Answer(200, [containers EXCEPT ![key] = [er.mc EXCEPT !.lastUsed = now]],
              er.engine)

\* proxyHandler that routes by the server's name alone.
proxyHandlerByName(req, containers, engine, now, fault) ==
  IF req.name = << >> THEN Answer(400, containers, engine)
  ELSE IF \A k \in DOMAIN containers : k.name # req.name
  THEN Answer(404, containers, engine)
  ELSE proxied(CHOOSE k \in DOMAIN containers : k.name = req.name,
               ensureRunning(containers[CHOOSE k \in DOMAIN containers : k.name = req.name],
                             engine, now, fault),
               containers, now, fault)

\* Server.proxyHandler.  Header.Get gives "" for a header that is not there.
proxyHandler(req, containers, engine, now, fault) ==
  IF req.name = << >> THEN Answer(400, containers, engine)
  ELSE IF containerKey(req.name, req.digest) \notin DOMAIN containers
  THEN Answer(404, containers, engine)
  ELSE proxied(containerKey(req.name, req.digest),
               ensureRunning(containers[containerKey(req.name, req.digest)],
                             engine, now, fault),
               containers, now, fault)

\* stopLocked that takes the container for stopped only when the engine's
\* stop went through.
stopLockedOnSuccess(mc, stopOK) ==
  IF stopOK THEN [mc EXCEPT !.status = "stopped", !.proxy = FALSE] ELSE mc

\* stopLocked: the status and the proxy afterwards, whatever engine.Stop
\* returned.
stopLocked(mc, stopOK) == [mc EXCEPT !.status = "stopped", !.proxy = FALSE]

\* stopIfIdle that also stops a container idle for exactly the timeout.
stopIfIdleAtTimeout(mc, now, timeout, stopOK) ==
  IF mc.status = "running" /\ now - mc.lastUsed >= timeout
  THEN [mc |-> stopLocked(mc, stopOK), stopped |-> TRUE]
  ELSE [mc |-> mc, stopped |-> FALSE]

\* stopIfIdle: the container afterwards and the value returned.
stopIfIdle(mc, now, timeout, stopOK) ==
  IF mc.status = "running" /\ now - mc.lastUsed > timeout
  THEN [mc |-> stopLocked(mc, stopOK), stopped |-> TRUE]
  ELSE [mc |-> mc, stopped |-> FALSE]

\* The headers of the requests and what goes wrong while one is served.
ServeNames == { << >>, <<"s","r","v">>, <<"o","t","h","e","r">>, <<"g","h","o","s","t">> }
ServeDigests == { << >>, <<"d","1">>, <<"d","2">>, <<"d","9">> }
ServeFaults == { "none", "pull", "port", "run", "tcp", "upstream" }

NotServe == << store, localImage, calls, lock, manifest, runs, refCase >>

\* One request through Server.proxyHandler.
Request ==
  /\ \E name \in ServeNames, digest \in ServeDigests, fault \in ServeFaults :
     \E a \in { proxyHandler([name |-> name, digest |-> digest], procs, kept, gen, fault) } :
       /\ procs' = a.containers
       /\ kept' = a.engine
       /\ probe' = [op |-> "req", name |-> name, digest |-> digest, code |-> a.code]
  /\ UNCHANGED << gen, NotServe >>

\* Time passes.
Tick ==
  /\ gen < MaxClock
  /\ gen' = gen + 1
  /\ probe' = [op |-> "none"]
  /\ UNCHANGED << procs, kept, NotServe >>

\* One round of startIdleReaper.
Reap ==
  /\ procs' = [k \in DOMAIN procs |-> stopIfIdle(procs[k], gen, IdleTimeout, TRUE).mc]
  /\ procs' # procs
  /\ kept' = kept \ { containerName(procs[k]) : k \in { j \in DOMAIN procs : procs'[j] # procs[j] } }
  /\ probe' = [op |-> "none"]
  /\ UNCHANGED << gen, NotServe >>

\* NewServerFromStore
InitServe ==
  /\ store \in ServeStores
  /\ gen = 1
  /\ localImage = << >>
  /\ calls = << >>
  /\ kept = {}
  /\ procs = discoverContainers(store)
  /\ lock = << >>
  /\ manifest = << >>
  /\ runs = << >>
  /\ refCase = << >>
  /\ probe = [op |-> "none"]

NextServe ==
  \/ Request
  \/ Tick
  \/ Reap

SpecServe == InitServe /\ [][NextServe]_vars

\* C28: a request without the X-MCP-Server header is answered 400, one whose
\* (X-MCP-Server, X-MCP-Server-Digest) pair is no discovered container key,
\* a known name with a wrong or absent digest included, is answered 404, and
\* in both cases no container is started and none changes its state.
UnroutedRequestsTouchNothing ==
  [][probe'.op = "req"
       => /\ probe'.name = << >> =>
               /\ probe'.code = 400
               /\ procs' = procs
               /\ kept' = kept
          /\ (probe'.name # << >> /\
              \A k \in DOMAIN procs : ~(k.name = probe'.name /\ k.digest = probe'.digest)) =>
               /\ probe'.code = 404
               /\ procs' = procs
               /\ kept' = kept]_vars

\* A request for a server that is installed, under a digest it is not
\* installed with, was answered 404 while that server's container ran.
UnroutedRequestsTouchNothingWitness ==
  /\ probe.op = "req"
  /\ probe.code = 404
  /\ probe.name = <<"s","r","v">>
  /\ probe.digest \in { << >>, <<"d","9">> }
  /\ \E k \in DOMAIN procs : k.name = <<"s","r","v">> /\ procs[k].status = "running"
  /\ <<"a","p","k","g","-","s","r","v">> \in kept

(***************************************************************************)
(* HashDir on two trees side by side: what each feeds into the SHA-256.    *)
(***************************************************************************)

\* The names and contents of the files of the two trees.
DigestNames == { <<"a">>, <<"a","b">>, <<"b">> }
DigestBytes == { << >>, <<"x">>, <<"b">>, <<"b","x">> }

\* The store with the files of a tree under the hashed directory.
DigestStore(tree) ==
  [dirs  |-> { HashRoot },
   files |-> [f \in { HashRoot \o << n >> : n \in DOMAIN tree } |-> tree[f[Len(f)]]]]

DigestTrees ==
  UNION { [names -> DigestBytes] : names \in SUBSET DigestNames }

\* The bytes HashDir writes into its hash for a directory.
HashInput(st, segments) ==
  hashWrites(st, Path(segments),
             SortStrings({ WalkDir(st, Path(segments))[i] :
                             i \in DOMAIN WalkDir(st, Path(segments)) }))

\* The (relative path, content) pairs of a store's hashed directory.
PairsOf(st) == { << Rel(HashRoot, f), st.files[f] >> : f \in FilesUnder(st, HashRoot) }

NotDigest == << store, gen, localImage, calls, kept, procs, lock, manifest, runs, refCase >>

\* store.HashDir on the tree of the store and on the other tree.
HashBoth ==
  /\ probe.op = "trees"
  /\ probe' = [op |-> "hashed", other |-> probe.other,
               one |-> HashInput(store, HashRoot),
               two |-> HashInput(probe.other, HashRoot),
               first |-> HashDir(store, HashRoot),
               second |-> HashDir(probe.other, HashRoot)]
  /\ UNCHANGED NotDigest

InitDigest ==
  /\ store \in { DigestStore(t) : t \in DigestTrees }
  /\ gen = 1
  /\ localImage = << >>
  /\ calls = << >>
  /\ kept = {}
  /\ procs = << >>
  /\ lock = << >>
  /\ manifest = << >>
  /\ runs = << >>
  /\ refCase = << >>
  /\ probe \in { [op |-> "trees", other |-> DigestStore(t)] : t \in DigestTrees }

NextDigest == HashBoth

SpecDigest == InitDigest /\ [][NextDigest]_vars

\* C38: two trees with different sets of (relative path, content) pairs feed
\* different byte sequences into HashDir's SHA-256, and so have different
\* integrity digests.
DifferentTreesDifferentBytes ==
  (probe.op = "hashed" /\ PairsOf(store) # PairsOf(probe.other))
    => /\ probe.one # probe.two
       /\ probe.first # probe.second

(***************************************************************************)
(* stopIfIdle on its own: one container, a time and a timeout.             *)
(***************************************************************************)

\* The containers stopIfIdle finds when it has the mutex: stopped without a
\* proxy or running with one, last used at some time; and the container of
\* the tests, running without a proxy.
IdleContainers ==
  { [managedContainer(<<"t","e","s","t">>, [Image |-> <<"t","e","s","t",":","l","a","t","e","s","t">>])
       EXCEPT !.status = st.status, !.proxy = st.proxy, !.lastUsed = t] :
      st \in { [status |-> "stopped", proxy |-> FALSE],
               [status |-> "running", proxy |-> TRUE],
               [status |-> "running", proxy |-> FALSE] },
      t \in 0..MaxClock }

NotIdle == << store, gen, localImage, calls, kept, procs, lock, manifest, runs, refCase >>

\* One call of stopIfIdle; engine.Stop succeeds or fails.
IdleCheck ==
  /\ probe.op = "idle"
  /\ \E stopOK \in BOOLEAN :
       probe' = [op |-> "checked", mc |-> probe.mc, now |-> probe.now,
                 timeout |-> probe.timeout, stopOK |-> stopOK,
                 out |-> stopIfIdle(probe.mc, probe.now, probe.timeout, stopOK)]
  /\ UNCHANGED NotIdle

InitIdle ==
  /\ store = EmptyStore
  /\ gen = 1
  /\ localImage = << >>
  /\ calls = << >>
  /\ kept = {}
  /\ procs = << >>
  /\ lock = << >>
  /\ manifest = << >>
  /\ runs = << >>
  /\ refCase = << >>
  /\ probe \in { [op |-> "idle", mc |-> mc, now |-> now, timeout |-> timeout] :
                   mc \in IdleContainers, now \in 0..MaxClock, timeout \in 0..IdleTimeout }
  /\ probe.now >= probe.mc.lastUsed

NextIdle == IdleCheck

SpecIdle == InitIdle /\ [][NextIdle]_vars

\* C36: stopIfIdle returns false and changes neither status nor proxy when
\* the container is not running or its last use is within the timeout; when
\* it returns true the status is stopped and the proxy cleared, also when the
\* engine's stop reported an error.
StopIfIdleContract ==
  probe.op = "checked" =>
    /\ (probe.mc.status # "running" \/ probe.now - probe.mc.lastUsed <= probe.timeout)
         => /\ ~probe.out.stopped
            /\ probe.out.mc.status = probe.mc.status
            /\ probe.out.mc.proxy = probe.mc.proxy
    /\ probe.out.stopped
         => /\ probe.out.mc.status = "stopped"
            /\ ~probe.out.mc.proxy

\* A running container idle for longer than the timeout was stopped though
\* the engine's stop failed.
StopIfIdleContractWitness ==
  /\ probe.op = "checked"
  /\ probe.out.stopped
  /\ ~probe.stopOK
  /\ probe.mc.proxy
  /\ probe.timeout > 0

(***************************************************************************)
(* `apkg serve`, step by step: the handlers of concurrent requests, the    *)
(* idle reaper and the shutdown of ListenAndServe interleave, and only the *)
(* mutex of a container orders them.  procs holds Server.Containers, lock  *)
(* who holds each container's mutex, kept the containers of the engine     *)
(* with the key they were run for, calls the handlers, refCase where       *)
(* ListenAndServe is, gen the clock, and runs how often each container     *)
(* went from running to stopped.                                           *)
(***************************************************************************)

Handlers == { "h1", "h2" }
Free == "free"

\* A handler before its request, and the server before any signal.
NewHandler ==
  [pc |-> "new", key |-> << >>, code |-> 0, started |-> FALSE, ens |-> "none",
   epoch |-> 0, left |-> "none", cut |-> FALSE]
Serving == [phase |-> "serving", left |-> {}, issued |-> {}, was |-> << >>]

\* Engine.Stop: `stop` and `rm -f` of the container of that name.
engineStop(engine, name) == { c \in engine : c.name # name }

\* Engine.Run: `run -d --name`, refused while a container has the name.
engineRun(engine, name, key) ==
  IF \E c \in engine : c.name = name
  THEN [ok |-> FALSE, engine |-> engine]
  ELSE [ok |-> TRUE, engine |-> engine \cup { [name |-> name, key |-> key] }]

\* The container the engine runs for a key.
Own(k) == [name |-> containerName(procs[k]), key |-> k]

\* ensureRunning's test under the mutex that always finds the container down.
alreadyRunningNever(mc) == FALSE

\* ensureRunning's test under the mutex: the container runs already.
alreadyRunning(mc) == mc.status = "running"

\* A failing path of ensureRunning that leaves the status as it is.
failedAsIs(mc) == mc

\* A failing path of ensureRunning: the status goes back to stopped.
failed(mc) == [mc EXCEPT !.status = "stopped"]

\* The success of ensureRunning: proxy, last use, status.
started(mc, now) == [mc EXCEPT !.proxy = TRUE, !.lastUsed = now, !.status = "running"]

\* The proxy's ErrorHandler.
ErrorHandler(mc) == [mc EXCEPT !.status = "stopped", !.proxy = FALSE]

ServeGhost == << store, localImage, manifest, probe >>

\* ensureRunning returns an error: status, mutex, 503.
Fails(h, k) ==
  /\ procs' = [procs EXCEPT ![k] = failed(@)]
  /\ lock' = [lock EXCEPT ![k] = Free]
  /\ calls' = [calls EXCEPT ![h] = [@ EXCEPT !.pc = "done", !.code = 503, !.ens = "err",
                                              !.left = failed(procs[k]).status]]

\* proxyHandler is entered with the headers of a discovered container.
Begin(h) ==
  /\ calls[h].pc = "new"
  /\ refCase.phase \in { "serving", "cancelled" }
  /\ \E k \in DOMAIN procs : calls' = [calls EXCEPT ![h] = [@ EXCEPT !.pc = "lock", !.key = k]]
  /\ UNCHANGED << gen, procs, lock, kept, runs, refCase, ServeGhost >>

\* ensureRunning takes the mutex: it returns at once for a running
\* container, and else sets the status to starting.
EnsureLock(h) ==
  /\ calls[h].pc = "lock"
  /\ lock[calls[h].key] = Free
  /\ IF alreadyRunning(procs[calls[h].key])
     THEN /\ calls' = [calls EXCEPT ![h] = [@ EXCEPT !.pc = "touch", !.ens = "ok",
                                                  !.epoch = runs[calls[h].key],
                                                  !.left = procs[calls[h].key].status]]
          /\ UNCHANGED << procs, lock >>
     ELSE /\ calls' = [calls EXCEPT ![h] = [@ EXCEPT !.pc = "pull", !.started = TRUE,
                                                  !.epoch = runs[calls[h].key]]]
          /\ procs' = [procs EXCEPT ![calls[h].key].status = "starting"]
          /\ lock' = [lock EXCEPT ![calls[h].key] = h]
  /\ UNCHANGED << gen, kept, runs, refCase, ServeGhost >>

\* engine.Pull
EnsurePull(h) ==
  /\ calls[h].pc = "pull"
  /\ \E ok \in BOOLEAN :
       IF ok THEN /\ calls' = [calls EXCEPT ![h].pc = "stop"]
                  /\ UNCHANGED << procs, lock >>
       ELSE Fails(h, calls[h].key)
  /\ UNCHANGED << gen, kept, runs, refCase, ServeGhost >>

\* engine.Stop of a container left under the name, and freePort.
EnsureStop(h) ==
  /\ calls[h].pc = "stop"
  /\ kept' = engineStop(kept, containerName(procs[calls[h].key]))
  /\ \E ok \in BOOLEAN :
       IF ok THEN /\ calls' = [calls EXCEPT ![h].pc = "run"]
                  /\ procs' = [procs EXCEPT ![calls[h].key].hostPort = FreePort]
                  /\ UNCHANGED lock
       ELSE Fails(h, calls[h].key)
  /\ UNCHANGED << gen, runs, refCase, ServeGhost >>

\* engine.Run
EnsureRun(h) ==
  /\ calls[h].pc = "run"
  /\ \E ok \in BOOLEAN :
     \E r \in { engineRun(kept, containerName(procs[calls[h].key]), calls[h].key) } :
       IF ok /\ r.ok
       THEN /\ kept' = r.engine
            /\ calls' = [calls EXCEPT ![h].pc = "wait"]
            /\ UNCHANGED << procs, lock >>
       ELSE /\ kept' = kept
            /\ Fails(h, calls[h].key)
  /\ UNCHANGED << gen, runs, refCase, ServeGhost >>

\* waitForTCP, and the end of ensureRunning: the port answers while the
\* container is there; else the container of the name is stopped.
EnsureWait(h) ==
  /\ calls[h].pc = "wait"
  /\ \E ok \in BOOLEAN :
       IF ok /\ Own(calls[h].key) \in kept
       THEN /\ procs' = [procs EXCEPT ![calls[h].key] = started(@, gen)]
            /\ lock' = [lock EXCEPT ![calls[h].key] = Free]
            /\ calls' = [calls EXCEPT ![h] = [@ EXCEPT !.pc = "touch", !.ens = "ok",
                                                    !.left = "running"]]
            /\ kept' = kept
       ELSE /\ kept' = engineStop(kept, containerName(procs[calls[h].key]))
            /\ Fails(h, calls[h].key)
  /\ UNCHANGED << gen, runs, refCase, ServeGhost >>

\* mc.touch()
Touch(h) ==
  /\ calls[h].pc = "touch"
  /\ lock[calls[h].key] = Free
  /\ procs' = [procs EXCEPT ![calls[h].key].lastUsed = gen]
  /\ calls' = [calls EXCEPT ![h].pc = "proxy"]
  /\ UNCHANGED << gen, lock, kept, runs, refCase, ServeGhost >>

\* The handler reads the cached proxy: 503 without one, else the request is
\* forwarded.
ReadProxy(h) ==
  /\ calls[h].pc = "proxy"
  /\ lock[calls[h].key] = Free
  /\ calls' = [calls EXCEPT ![h] =
       IF procs[calls[h].key].proxy THEN [@ EXCEPT !.pc = "serve"]
       ELSE [@ EXCEPT !.pc = "done", !.code = 503]]
  /\ UNCHANGED << gen, procs, lock, kept, runs, refCase, ServeGhost >>

\* The forwarded request ends: with the container's answer, or, the
\* container gone or not answering on the proxy's port, in the
\* ErrorHandler.
Respond(h) ==
  /\ calls[h].pc = "serve"
  /\ \E ok \in BOOLEAN :
       IF ok /\ Own(calls[h].key) \in kept
       THEN /\ calls' = [calls EXCEPT ![h] = [@ EXCEPT !.pc = "done", !.code = 200]]
            /\ UNCHANGED << procs, runs >>
       ELSE /\ lock[calls[h].key] = Free
            /\ calls' = [calls EXCEPT ![h] = [@ EXCEPT !.pc = "done", !.code = 502]]
            /\ procs' = [procs EXCEPT ![calls[h].key] = ErrorHandler(@)]
            /\ runs' = [runs EXCEPT ![calls[h].key] =
                          IF procs[calls[h].key].status = "running" THEN @ + 1 ELSE @]
  /\ UNCHANGED << gen, lock, kept, refCase, ServeGhost >>

\* startIdleReaper: stopIfIdle on one container.  After the cancel a round
\* that is under way goes on with a context that is done, under which the
\* engine's commands do not run.
ReapOne(k) ==
  /\ refCase.phase # "returned"
  /\ lock[k] = Free
  /\ \E stopOK \in BOOLEAN :
     \E out \in { stopIfIdle(procs[k], gen, IdleTimeout, stopOK) } :
       /\ out.stopped
       /\ procs' = [procs EXCEPT ![k] = out.mc]
       /\ kept' = IF stopOK /\ refCase.phase = "serving"
                  THEN engineStop(kept, containerName(procs[k]))
                  ELSE kept
  /\ runs' = [runs EXCEPT ![k] = @ + 1]
  /\ calls' = [h \in Handlers |->
                 IF calls[h].key = k /\ calls[h].pc = "serve"
                 THEN [calls[h] EXCEPT !.cut = TRUE] ELSE calls[h]]
  /\ UNCHANGED << gen, lock, refCase, ServeGhost >>

\* Time passes.
ClockTick ==
  /\ gen < MaxClock
  /\ gen' = gen + 1
  /\ UNCHANGED << procs, lock, kept, calls, runs, refCase, ServeGhost >>

\* ListenAndServe gets the signal or finds its context done: cancel().
Cancel ==
  /\ refCase.phase = "serving"
  /\ refCase' = [refCase EXCEPT !.phase = "cancelled"]
  /\ UNCHANGED << gen, procs, lock, kept, calls, runs, ServeGhost >>

\* srv.Shutdown closes the listeners: no request is accepted any more.
CloseListeners ==
  /\ refCase.phase = "cancelled"
  /\ refCase' = [refCase EXCEPT !.phase = "draining"]
  /\ UNCHANGED << gen, procs, lock, kept, calls, runs, ServeGhost >>

\* srv.Shutdown returns once no request is being served.
Drained ==
  /\ refCase.phase = "draining"
  /\ \A h \in Handlers : calls[h].pc \in { "new", "done" }
  /\ refCase' = [refCase EXCEPT !.phase = "stopping", !.left = DOMAIN procs]
  /\ UNCHANGED << gen, procs, lock, kept, calls, runs, ServeGhost >>

\* stopLocked's call of engine.Stop.
stopIssued(mc) == mc.status # "stopped"

\* stopAllContainers, one container: the mutex, stopLocked.
StopOne(k) ==
  /\ refCase.phase = "stopping"
  /\ k \in refCase.left
  /\ lock[k] = Free
  /\ \E stopOK \in BOOLEAN :
       /\ procs' = [procs EXCEPT ![k] = stopLocked(@, stopOK)]
       /\ kept' = IF stopIssued(procs[k]) /\ stopOK
                  THEN engineStop(kept, containerName(procs[k]))
                  ELSE kept
  /\ refCase' = [refCase EXCEPT
                   !.left = @ \ { k },
                   !.issued = IF stopIssued(procs[k]) THEN @ \cup { k } ELSE @,
                   !.was = [j \in DOMAIN @ \cup { k } |->
                              IF j = k THEN procs[k].status ELSE @[j]]]
  /\ runs' = [runs EXCEPT ![k] = IF procs[k].status = "running" THEN @ + 1 ELSE @]
  /\ UNCHANGED << gen, lock, calls, ServeGhost >>

\* ListenAndServe returns.
Return ==
  /\ refCase.phase = "stopping"
  /\ refCase.left = {}
  /\ refCase' = [refCase EXCEPT !.phase = "returned"]
  /\ UNCHANGED << gen, procs, lock, kept, calls, runs, ServeGhost >>

\* NewServerFromStore and ListenAndServe up to the first request, on a store
\* with one server under two digests or with two servers.
InitServeConc ==
  /\ store \in { ImageInstalled(ServeSrv, ImageInstalled(ServeSrv, EmptyStore, TRUE, 1), TRUE, 2),
                 ImageInstalled(ServeOther, ImageInstalled(ServeSrv, EmptyStore, TRUE, 1), TRUE, 2) }
  /\ gen = 1
  /\ localImage = << >>
  /\ calls = [h \in Handlers |-> NewHandler]
  /\ kept = {}
  /\ procs = discoverContainers(store)
  /\ lock = [k \in DOMAIN procs |-> Free]
  /\ manifest = << >>
  /\ runs = [k \in DOMAIN procs |-> 0]
  /\ refCase = Serving
  /\ probe = << >>

NextServeConc ==
  \/ \E h \in Handlers :
       \/ Begin(h)
       \/ EnsureLock(h)
       \/ EnsurePull(h)
       \/ EnsureStop(h)
       \/ EnsureRun(h)
       \/ EnsureWait(h)
       \/ Touch(h)
       \/ ReadProxy(h)
       \/ Respond(h)
  \/ \E k \in DOMAIN procs : ReapOne(k)
  \/ \E k \in DOMAIN procs : StopOne(k)
  \/ ClockTick
  \/ Cancel
  \/ CloseListeners
  \/ Drained
  \/ Return

SpecServeConc == InitServeConc /\ [][NextServeConc]_vars

\* The handlers whose ensureRunning returned nil for the same run of the
\* same container as h's, having gone through the start sequence.
Starters(h) ==
  { g \in Handlers : /\ calls[g].key = calls[h].key
                     /\ calls[g].epoch = calls[h].epoch
                     /\ calls[g].ens = "ok"
                     /\ calls[g].started }

\* C32: of the ensureRunning calls that return nil for one run of one
\* container, under any interleaving, exactly one went through the start
\* sequence; every other one found the container running and returned
\* without a call of the engine.
OneStartPerRun ==
  \A h \in Handlers : calls[h].ens = "ok" => Cardinality(Starters(h)) = 1

OneStartPerRunWitness ==
  /\ calls["h1"].ens = "ok" /\ calls["h2"].ens = "ok"
  /\ calls["h1"].key = calls["h2"].key
  /\ calls["h1"].epoch = calls["h2"].epoch
  /\ calls["h2"].started /\ ~calls["h1"].started
  /\ calls["h1"].code = 200 /\ calls["h2"].code = 200

\* C33: while the mutex of a container is free its status is stopped or
\* running, never starting, and it has a proxy exactly when it is running;
\* an ensureRunning that returned an error left the status stopped.
FreeMutexStatus ==
  /\ \A k \in DOMAIN procs :
       lock[k] = Free =>
         /\ procs[k].status \in { "stopped", "running" }
         /\ procs[k].proxy <=> procs[k].status = "running"
  /\ \A h \in Handlers : calls[h].ens = "err" => calls[h].left = "stopped"

FreeMutexStatusWitness ==
  /\ calls["h1"].ens = "err" /\ calls["h1"].started /\ calls["h1"].left = "stopped"
  /\ lock[calls["h1"].key] = Free
  /\ ~procs[calls["h1"].key].proxy
  /\ \E k \in DOMAIN procs : lock[k] = Free /\ procs[k].status = "running" /\ procs[k].proxy

\* C34: no step takes from the engine the container of a key that is and
\* stays running: what is done for one key leaves the running container of
\* every other key alone.
KeysAreIndependent ==
  [][\A k \in DOMAIN procs :
       (procs[k].status = "running" /\ procs'[k].status = "running" /\ Own(k) \in kept)
         => Own(k) \in kept']_vars

\* C35: the reaper stops no container to which a request is being
\* forwarded.
ReaperSparesRequestsInFlight ==
  \A h \in Handlers : ~calls[h].cut

\* C37: once ListenAndServe stops the containers no request is being
\* served, so none is started any more; when it has returned every
\* container is stopped, and the engine's stop was issued for exactly those
\* that were not.
ShutdownStopsAll ==
  /\ refCase.phase \in { "stopping", "returned" } =>
       \A h \in Handlers : calls[h].pc \in { "new", "done" }
  /\ refCase.phase = "returned" =>
       /\ \A k \in DOMAIN procs : procs[k].status = "stopped" /\ ~procs[k].proxy
       /\ refCase.issued = { k \in DOMAIN procs : refCase.was[k] # "stopped" }

ShutdownStopsAllWitness ==
  /\ refCase.phase = "returned"
  /\ \E k \in DOMAIN procs : k \in refCase.issued /\ Own(k) \in kept
  /\ \E k \in DOMAIN procs : k \notin refCase.issued
  /\ \E h \in Handlers : calls[h].code = 200
====
